---- MODULE Spec2Model ----
(***************************************************************************)
(* AudioSocket transport of open-medSecretary                             *)
(* (src/transports/audiosocket/transport.py) as a state machine.           *)
(*                                                                         *)
(* The transport runs on one asyncio event loop.  The model keeps the      *)
(* loop's FIFO ready queue (ready), the task that holds the CPU (running)  *)
(* and one program counter per task.  A task runs from one await that      *)
(* suspends to the next; the steps in between are separate actions that    *)
(* only the running task can take, so nothing interleaves with them.       *)
(* Events from outside the loop (a peer connects, sends, closes; an        *)
(* awaited pipeline callback completes; the pipeline submits an output     *)
(* frame; the socket becomes writable) happen between task steps.          *)
(*                                                                         *)
(* Tasks:  <<"H", c>>  _client_handler of connection c                     *)
(*         <<"L", c>>  the _receive_packets task created by handler c      *)
(*         <<"X", c>>  the transport's connection_lost callback of c       *)
(*         <<"W", 0>>  the pipeline task inside write_audio_frame          *)
(*         <<"T", 0>>  the pipeline task inside the output endpoint's stop  *)
(*         <<"S", 0>>  the pipeline task inside the input endpoint's stop   *)
(*                     or cancel                                           *)
(*         <<"V", 0>>  the server task, _server_task_handler               *)
(***************************************************************************)
EXTENDS Integers, Sequences, FiniteSets, TLC

\* ------------------------------------------------------------------ bounds
MaxConns == 3        \* connections the peers open
MaxStimuli == 4      \* what reaches the transport from outside in one run:
                     \*   connections, packets, peer closes, output frames
MaxHandover == 6     \* the same, when calls follow one another closely
MaxHandoverPackets == 2  \* packets among them
MaxHandoverFrames == 1   \* output frames among them
MaxFault == 7         \* the same, when sessions fail
MaxFaultPackets == 5  \* packets among them
MaxReconnect == 7     \* the same, when a call follows a finished one
MaxReconnectPackets == 5  \* packets among them
MaxFacadeCalls == 3   \* calls of input() and output() in one run

\* ------------------------------------------------------- program constants
AUDIOSOCKET_TYPE_TERMINATE == 0
AUDIOSOCKET_TYPE_UUID == 1
AUDIOSOCKET_TYPE_AUDIO == 16
AUDIOSOCKET_TYPE_SILENCE == 17
ASTERISK_SAMPLE_RATE == 8000
PIPECAT_SAMPLE_RATE == 16000
\* a tag the protocol does not define
UnknownTag == 2

Conns == 1..MaxConns
NoConn == 0

H(c) == <<"H", c>>
L(c) == <<"L", c>>
X(c) == <<"X", c>>
W == <<"W", 0>>
T == <<"T", 0>>
S == <<"S", 0>>
V == <<"V", 0>>
NoTask == <<"-", 0>>
Tasks == {H(c) : c \in Conns} \cup {L(c) : c \in Conns} \cup {W, T, S, V}

\* the calls into pipeline code: the two notifications and push_audio_frame
Callbacks == {"connected", "disconnected", "push"}

\* Optional[str]; "by" remembers the connection whose SessionId packet the
\* string came from, so that a notification can be attributed to a session
NoneStr == [set |-> FALSE, s |-> <<>>, by |-> NoConn]
Some(s, c) == [set |-> TRUE, s |-> s, by |-> c]
\* Python truthiness of an Optional[str]: not None and not ""
Truthy(u) == u.set /\ u.s # <<>>

\* no pure function is being called
NoCall == [op |-> "none"]

\* ----------------------------------------------------------- wire packets
SP == " "
\* SessionId payloads a peer may send (as sequences of characters)
UuidPayloads == {<<SP>>, <<"a">>, <<"b", SP>>}
AudioPayload == <<"x", "x">>

\* a packet; n is its position in the stream of its connection (0: none)
Packet(t, p) == [type |-> t, payload |-> p, n |-> 0]
NoPacket == Packet(255, <<>>)
\* what a peer can put on the wire as its next packet
PeerPackets ==
    {Packet(AUDIOSOCKET_TYPE_TERMINATE, <<>>)}
    \cup {Packet(AUDIOSOCKET_TYPE_UUID, p) : p \in UuidPayloads}
    \cup {Packet(AUDIOSOCKET_TYPE_AUDIO, AudioPayload)}
    \cup {Packet(AUDIOSOCKET_TYPE_SILENCE, <<>>)}
    \cup {Packet(UnknownTag, <<"x">>)}

\* a byte that is not valid UTF-8 wherever it stands (such as 0xFF)
BadByte == "!"
\* bytes.decode("utf-8") succeeds
Utf8Valid(s) == \A i \in 1..Len(s) : s[i] # BadByte
\* np.frombuffer(audio, dtype=np.int16) succeeds: whole 16-bit samples
WholeSamples(s) == Len(s) % 2 = 0

\* str.strip(): leading and trailing whitespace removed
RECURSIVE LStrip(_)
LStrip(s) == IF s # <<>> /\ Head(s) = SP THEN LStrip(Tail(s)) ELSE s
RECURSIVE RStrip(_)
RStrip(s) ==
    IF s # <<>> /\ s[Len(s)] = SP THEN RStrip(SubSeq(s, 1, Len(s) - 1)) ELSE s
Strip(s) == RStrip(LStrip(s))

VARIABLES
    startup,       \* the starts so far: in_calls and out_calls, the calls of
                   \*   start on the two endpoints; out_initialized,
                   \*   AudioSocketOutputTransport._initialized; out_ready,
                   \*   the output endpoint's calls of set_transport_ready
    fn,            \* a call of one of the pure functions: its arguments and
                   \*   what it has returned so far
    tsock,         \* the socket whose drain() _send_terminate awaits
    stop_awaits,   \* the receive task whose end stop or cancel awaits
    env,           \* what the peers and the pipeline may do in this run:
                   \*   budget, the stimuli they may apply in all,
                   \*   packets and frames, the packets and the output
                   \*   frames among them,
                   \*   slow, the pipeline callbacks that may suspend,
                   \*   faulty, those whose handler may raise, and
                   \*   menu, the packets a peer may send
    initialized,   \* AudioSocketInputTransport._initialized
    server,        \* the listening socket: "none", "listening", "closed"
    nconn,         \* connections accepted so far
    sock,          \* per connection, the server side of the socket:
                   \*   "none", "open", "closing" (close() called), "closed"
    avail,         \* per connection, whole packets in the StreamReader buffer
    sent,          \* per connection, packets the peer has sent
    eof,           \* per connection, StreamReader._eof
    peer_closed,   \* per connection, whether the peer has closed it
    partial,       \* per connection, how the peer closed: "none" (not, or
                   \*   after a whole packet), "hdr" (after fewer than 3 bytes
                   \*   of a header), "pay" (after a header and less payload
                   \*   than it declares)
    leftover,      \* per connection, whether the bytes of that cut-off
                   \*   packet are still in the StreamReader buffer
    waiter,        \* per connection, the task parked in StreamReader._waiter
    closeWaiters,  \* per connection, the tasks awaiting wait_closed(), in order
    reader,        \* AudioSocketInputTransport._reader (a connection or NoConn)
    writer,        \* AudioSocketInputTransport._writer
    call_uuid,     \* AudioSocketInputTransport._call_uuid
    receive_task,  \* AudioSocketInputTransport._receive_task
    out_writer,    \* AudioSocketOutputTransport._writer
    pc,            \* per task, where it is
    rd,            \* per receive task, the reader its pending read is on
    cur,           \* per receive task, the packet it is processing
    wsock,         \* the socket the pending write_audio_frame wrote to
    nsub,          \* frames submitted to the output endpoint so far
    wire,          \* per connection, the packets written to the socket
    ready,         \* the event loop's ready queue
    running,       \* the task that holds the CPU, or NoTask
    events         \* the observed history, in order: "evict" when the
                   \*   handler of connection sock finds connection n in
                   \*   place; "connected", "frame" and "terminate" for a
                   \*   packet (sock: the reader it was read from, n: its
                   \*   position in that stream);
                   \*   "disconnected"; per output frame "submit", "write"
                   \*   and "return"

vars == <<fn, startup, tsock, stop_awaits, env, initialized, server, nconn, sock, avail, sent, eof, peer_closed,
          partial, leftover, waiter,
          closeWaiters, reader, writer, call_uuid, receive_task, out_writer,
          pc, rd, cur, wsock, nsub, wire, ready, running, events>>

netVars == <<avail, sent, eof, peer_closed, partial, leftover>>
inVars == <<reader, writer, call_uuid, receive_task>>

Range(q) == {q[i] : i \in 1..Len(q)}

\* an observed event
Ev(e, i, s, n, b) == [ev |-> e, id |-> i, sock |-> s, n |-> n, ok |-> b]

\* the transport after construction, before start
Constructed ==
    /\ startup = [in_calls |-> 0, out_calls |-> 0, out_initialized |-> FALSE,
                  out_ready |-> 0]
    /\ tsock = NoConn
    /\ stop_awaits = NoTask
    /\ initialized = FALSE
    /\ server = "none"
    /\ nconn = 0
    /\ sock = [c \in Conns |-> "none"]
    /\ avail = [c \in Conns |-> 0]
    /\ sent = [c \in Conns |-> 0]
    /\ eof = [c \in Conns |-> FALSE]
    /\ peer_closed = [c \in Conns |-> FALSE]
    /\ partial = [c \in Conns |-> "none"]
    /\ leftover = [c \in Conns |-> FALSE]
    /\ waiter = [c \in Conns |-> NoTask]
    /\ closeWaiters = [c \in Conns |-> <<>>]
    /\ reader = NoConn
    /\ writer = NoConn
    /\ call_uuid = NoneStr
    /\ receive_task = NoTask
    /\ out_writer = NoConn
    /\ pc = [t \in Tasks |-> "none"]
    /\ rd = [c \in Conns |-> NoConn]
    /\ cur = [c \in Conns |-> NoPacket]
    /\ wsock = NoConn
    /\ nsub = 0
    /\ wire = [c \in Conns |-> <<>>]
    /\ ready = <<>>
    /\ running = NoTask
    /\ events = <<>>

\* any peer behaviour, within the stimulus budget
Init ==
    /\ env = [budget |-> MaxStimuli, packets |-> MaxStimuli,
              frames |-> MaxStimuli, slow |-> Callbacks,
              menu |-> PeerPackets, faulty |-> {}]
    /\ fn = NoCall
    /\ Constructed

\* ------------------------------------------------------------- event loop
\* t is the task that runs now: it holds the CPU, or the CPU is free and t is
\* the head of the ready queue
Runs(t) ==
    \/ running = t
    \/ running = NoTask /\ ready # <<>> /\ Head(ready) = t

\* the ready queue once the task that runs now has been taken from it
Rest == IF running = NoTask /\ ready # <<>> THEN Tail(ready) ELSE ready

\* q with t scheduled (loop.call_soon), unless it is scheduled already
Wake(q, t) == IF t = NoTask \/ t \in Range(q) THEN q ELSE Append(q, t)

RECURSIVE WakeAll(_, _)
WakeAll(q, ts) == IF ts = <<>> THEN q ELSE WakeAll(Wake(q, Head(ts)), Tail(ts))

\* the loop is between two task steps: events from outside can be taken
Idle == running = NoTask


RECURSIVE SumTo(_, _)
SumTo(f, n) == IF n = 0 THEN 0 ELSE f[n] + SumTo(f, n - 1)

\* the stimuli taken so far
Used ==
    nconn + nsub + SumTo(sent, MaxConns)
    + Cardinality({c \in Conns : peer_closed[c]})
    + Cardinality({t \in {T, S} : pc[t] # "none"})

\* one more stimulus fits the run
MayStimulate == Used < env.budget

\* whether the pipeline code behind callback cb suspends before it returns
MaySuspend(cb) == IF cb \in env.slow THEN BOOLEAN ELSE {FALSE}

\* whether a handler registered for callback cb raises.  The handlers run
\* inside the facade's _call_event_handler, which logs what they raise: the
\* callback itself returns either way.
MayRaise(cb) == IF cb \in env.faulty THEN BOOLEAN ELSE {FALSE}

\* StreamReader.at_eof(): EOF was fed and the buffer is empty
AtEof(s) == eof[s] /\ avail[s] = 0 /\ ~leftover[s]

\* --------------------------------------------------------- facade callbacks
\* AudioSocketOutputTransport.set_writer
set_writer(w) == out_writer' = w

\* AudioSocketTransport._on_client_connected: share the input's writer with
\* the output endpoint, then call the registered handlers
OnClientConnected(id, s, n) ==
    /\ IF writer # NoConn THEN set_writer(writer) ELSE UNCHANGED out_writer
    /\ \E raised \in MayRaise("connected") :
          events' = Append(events, Ev("connected", id, s, n, ~raised))

\* a faulty _on_client_disconnected that leaves the output's writer attached:
\* what C9 has to tell apart from the code
OnClientDisconnectedKeepingWriter(id, s) ==
    /\ UNCHANGED out_writer
    /\ \E raised \in MayRaise("disconnected") :
          events' = Append(events, Ev("disconnected", id, s, 0, ~raised))

\* AudioSocketTransport._on_client_disconnected: clear the output's writer,
\* then call the registered handlers
OnClientDisconnected(id, s) ==
    /\ set_writer(NoConn)
    /\ \E raised \in MayRaise("disconnected") :
          events' = Append(events, Ev("disconnected", id, s, 0, ~raised))

\* ------------------------------------------------------------------ server
\* AudioSocketInputTransport.start: the first call creates the server task,
\* which binds the listening socket; later calls return at once
\* a start that goes by the server task alone: it creates one whenever none
\* is there
InputStartUnguarded ==
    /\ Idle
    /\ IF server = "listening"
       THEN UNCHANGED <<env, fn, tsock, stop_awaits, initialized, server>>
       ELSE /\ initialized' = TRUE
            /\ server' = "listening"
    /\ UNCHANGED <<env, fn, tsock, stop_awaits, nconn, sock, netVars, waiter, closeWaiters, inVars,
                   out_writer, pc, rd, cur, wsock, nsub, wire, ready, running,
                   events>>
\* lines 155-170
InputStart ==
    /\ Idle
    /\ IF initialized
       THEN UNCHANGED <<env, fn, tsock, stop_awaits, initialized, server>>
       ELSE /\ initialized' = TRUE
            /\ server' = "listening"
    /\ UNCHANGED <<env, fn, tsock, stop_awaits, nconn, sock, netVars, waiter, closeWaiters, inVars,
                   out_writer, pc, rd, cur, wsock, nsub, wire, ready, running,
                   events>>

\* a start of the input endpoint as the pipeline sends it
Start ==
    /\ InputStart
    /\ UNCHANGED startup

\* a peer connects: asyncio accepts the socket and schedules _client_handler
Accept(c) ==
    /\ Idle
    /\ server = "listening"
    /\ MayStimulate
    /\ c = nconn + 1
    /\ nconn' = c
    /\ sock' = [sock EXCEPT ![c] = "open"]
    /\ pc' = [pc EXCEPT ![H(c)] = "start"]
    /\ ready' = Append(ready, H(c))
    /\ UNCHANGED <<env, fn, startup, tsock, stop_awaits, initialized, server, netVars, waiter, closeWaiters, inVars,
                   out_writer, rd, cur, wsock, nsub, wire, running, events>>

\* _client_handler, lines 239-243: adopt the connection and start its
\* receive task
Attach(c) ==
    /\ reader' = c
    /\ writer' = c
    /\ receive_task' = L(c)
    /\ pc' = [pc EXCEPT ![H(c)] = "done", ![L(c)] = "start"]
    /\ ready' = Append(Rest, L(c))
    /\ running' = NoTask

\* _client_handler up to its first suspension: evict the connection in
\* place, if there is one, else adopt the new one
ClientHandler(c) ==
    /\ Runs(H(c))
    /\ pc[H(c)] = "start"
    /\ IF reader # NoConn
       THEN /\ pc' = [pc EXCEPT ![H(c)] = "close"]
            /\ running' = H(c)
            /\ ready' = Rest
            /\ events' = Append(events, Ev("evict", <<>>, c, reader, TRUE))
            /\ UNCHANGED inVars
       ELSE /\ Attach(c)
            /\ UNCHANGED <<call_uuid, events>>
    /\ UNCHANGED <<env, fn, startup, tsock, stop_awaits, initialized, server, nconn, sock, netVars, waiter,
                   closeWaiters, out_writer, rd, cur, wsock, nsub, wire>>

\* _client_handler after the eviction's _close_client_connection returned
ClientHandlerResume(c) ==
    /\ running = H(c)
    /\ pc[H(c)] = "after_close"
    /\ Attach(c)
    /\ UNCHANGED <<env, fn, startup, tsock, stop_awaits, initialized, server, nconn, sock, netVars, waiter,
                   closeWaiters, call_uuid, out_writer, rd, cur, wsock, nsub,
                   wire, events>>

\* --------------------------------------------- _close_client_connection
\* the tasks that call _close_client_connection
Closers == {H(c) : c \in Conns} \cup {L(c) : c \in Conns} \cup {S}

\* lines 247-253: close the current writer and wait until it is closed
CloseWriter(t) ==
    /\ Runs(t)
    /\ pc[t] = "close"
    /\ IF writer = NoConn
       THEN /\ pc' = [pc EXCEPT ![t] = "close_mid"]
            /\ running' = t
            /\ ready' = Rest
            /\ UNCHANGED <<sock, closeWaiters, writer>>
       ELSE /\ sock' = [sock EXCEPT ![writer] =
                           IF @ = "open" THEN "closing" ELSE @]
            /\ IF sock[writer] = "closed"
               THEN \* wait_closed() returns without suspending
                    /\ writer' = NoConn
                    /\ pc' = [pc EXCEPT ![t] = "close_mid"]
                    /\ running' = t
                    /\ ready' = Rest
                    /\ UNCHANGED closeWaiters
               ELSE /\ closeWaiters' =
                           [closeWaiters EXCEPT ![writer] = Append(@, t)]
                    /\ pc' = [pc EXCEPT ![t] = "wait_closed"]
                    /\ running' = NoTask
                    /\ ready' = IF sock[writer] = "open"
                                THEN Append(Rest, X(writer)) ELSE Rest
                    /\ UNCHANGED writer
    /\ UNCHANGED <<env, fn, startup, tsock, stop_awaits, initialized, server, nconn, netVars, waiter, reader,
                   call_uuid, receive_task, out_writer, rd, cur, wsock, nsub,
                   wire, events>>

\* line 253, after wait_closed() has returned
CloseWriterDone(t) ==
    /\ Runs(t)
    /\ pc[t] = "wait_closed"
    /\ writer' = NoConn
    /\ pc' = [pc EXCEPT ![t] = "close_mid"]
    /\ running' = t
    /\ ready' = Rest
    /\ UNCHANGED <<env, fn, startup, tsock, stop_awaits, initialized, server, nconn, sock, netVars, waiter,
                   closeWaiters, reader, call_uuid, receive_task, out_writer,
                   rd, cur, wsock, nsub, wire, events>>

\* lines 255-258: drop the reader and, if a call identifier is set, call
\* on_client_disconnected, which may suspend in a registered handler
CloseNotify(t) ==
    /\ running = t
    /\ pc[t] = "close_mid"
    /\ reader' = NoConn
    /\ IF Truthy(call_uuid)
       THEN /\ OnClientDisconnected(call_uuid.s, call_uuid.by)
            /\ \E suspends \in MaySuspend("disconnected") :
                  /\ pc' = [pc EXCEPT ![t] =
                               IF suspends THEN "disc_cb" ELSE "close_end"]
                  /\ running' = IF suspends THEN NoTask ELSE t
       ELSE /\ pc' = [pc EXCEPT ![t] = "after_close"]
            /\ running' = t
            /\ UNCHANGED <<out_writer, events>>
    /\ UNCHANGED <<env, fn, startup, tsock, stop_awaits, initialized, server, nconn, sock, netVars, waiter,
                   closeWaiters, writer, call_uuid, receive_task, rd, cur,
                   wsock, nsub, wire, ready>>

\* line 259, after on_client_disconnected has returned
CloseClear(t) ==
    /\ Runs(t)
    /\ pc[t] \in {"close_end", "disc_cb"}
    /\ call_uuid' = NoneStr
    /\ pc' = [pc EXCEPT ![t] = "after_close"]
    /\ running' = t
    /\ ready' = Rest
    /\ UNCHANGED <<env, fn, startup, tsock, stop_awaits, initialized, server, nconn, sock, netVars, waiter,
                   closeWaiters, reader, writer, receive_task, out_writer, rd,
                   cur, wsock, nsub, wire, events>>

\* an await inside a pipeline callback or push_audio_frame completes, and the
\* task that was suspended in it is scheduled again
CallbackReturns(t) ==
    /\ Idle
    /\ pc[t] \in {"disc_cb", "conn_cb", "push"}
    /\ t \notin Range(ready)
    /\ ready' = Append(ready, t)
    /\ UNCHANGED <<env, fn, startup, tsock, stop_awaits, initialized, server, nconn, sock, netVars, waiter,
                   closeWaiters, inVars, out_writer, pc, rd, cur, wsock, nsub,
                   wire, running, events>>


\* ------------------------------------------------------- _receive_packets
\* line 264, the loop condition, evaluated when the task starts, after a
\* packet was processed, and when an awaited callback or push has returned;
\* a true condition goes on to readexactly(3) on the reader in place NOW
LoopTest(c) ==
    /\ Runs(L(c))
    /\ pc[L(c)] \in {"start", "top", "conn_cb", "push"}
    /\ IF reader # NoConn /\ ~AtEof(reader)
       THEN /\ rd' = [rd EXCEPT ![c] = reader]
            /\ pc' = [pc EXCEPT ![L(c)] = "read_hdr"]
       ELSE /\ pc' = [pc EXCEPT ![L(c)] = "close"]
            /\ UNCHANGED rd
    /\ running' = L(c)
    /\ ready' = Rest
    /\ UNCHANGED <<env, fn, startup, tsock, stop_awaits, initialized, server, nconn, sock, netVars, waiter,
                   closeWaiters, inVars, out_writer, cur, wsock, nsub, wire,
                   events>>

\* lines 266-268, readexactly(3) and the header's fields.  The buffer holds
\* whole packets first, then the bytes of a cut-off packet.  With nothing
\* buffered the read raises IncompleteReadError at EOF, RuntimeError when
\* another task is parked on the same reader, and parks the task otherwise.
ReadHeader(c) ==
    LET s == rd[c] IN
    /\ Runs(L(c))
    /\ pc[L(c)] \in {"read_hdr", "wait_hdr"}
    /\ ready' = Rest
    /\ IF avail[s] > 0
       THEN /\ \E p \in env.menu :
                  cur' = [cur EXCEPT ![c] =
                             [p EXCEPT !.n = sent[s] - avail[s] + 1]]
            /\ avail' = [avail EXCEPT ![s] = @ - 1]
            /\ pc' = [pc EXCEPT ![L(c)] = "read_pay"]
            /\ running' = L(c)
            /\ UNCHANGED <<leftover, waiter>>
       ELSE IF leftover[s] /\ partial[s] = "pay"
       THEN /\ \E p \in {q \in PeerPackets : Len(q.payload) > 0} :
                  cur' = [cur EXCEPT ![c] = [p EXCEPT !.n = sent[s] + 1]]
            /\ pc' = [pc EXCEPT ![L(c)] = "read_pay_cut"]
            /\ running' = L(c)
            /\ UNCHANGED <<avail, leftover, waiter>>
       ELSE IF eof[s]
       THEN /\ leftover' = [leftover EXCEPT ![s] = FALSE]
            /\ pc' = [pc EXCEPT ![L(c)] = "close"]
            /\ running' = L(c)
            /\ UNCHANGED <<avail, waiter, cur>>
       ELSE IF waiter[s] # NoTask
       THEN /\ pc' = [pc EXCEPT ![L(c)] = "close"]
            /\ running' = L(c)
            /\ UNCHANGED <<avail, leftover, waiter, cur>>
       ELSE /\ waiter' = [waiter EXCEPT ![s] = L(c)]
            /\ pc' = [pc EXCEPT ![L(c)] = "wait_hdr"]
            /\ running' = NoTask
            /\ UNCHANGED <<avail, leftover, cur>>
    /\ UNCHANGED <<env, fn, startup, tsock, stop_awaits, initialized, server, nconn, sock, sent, eof, peer_closed,
                   partial, closeWaiters, inVars, out_writer, rd, wsock, nsub,
                   wire, events>>

\* lines 271-273, the payload: read when the header declares one, and an
\* IncompleteReadError when the peer closed before all of it arrived
ReadPayload(c) ==
    /\ running = L(c)
    /\ pc[L(c)] \in {"read_pay", "read_pay_cut"}
    /\ IF pc[L(c)] = "read_pay"
       THEN /\ pc' = [pc EXCEPT ![L(c)] = "dispatch"]
            /\ UNCHANGED <<leftover, cur>>
       ELSE /\ leftover' = [leftover EXCEPT ![rd[c]] = FALSE]
            /\ cur' = [cur EXCEPT ![c] = NoPacket]
            /\ pc' = [pc EXCEPT ![L(c)] = "close"]
    /\ UNCHANGED <<env, fn, startup, tsock, stop_awaits, initialized, server, nconn, sock, avail, sent, eof,
                   peer_closed, partial, waiter, closeWaiters, inVars,
                   out_writer, rd, wsock, nsub, wire, ready, running, events>>

\* an exception that leaves the task at once, past the finally clause
PacketErrorEscapes(pcs, c) == [pcs EXCEPT ![L(c)] = "done"]
\* lines 297-300: an exception raised while a packet is processed is logged
\* and the finally clause runs _close_client_connection
PacketError(pcs, c) == [pcs EXCEPT ![L(c)] = "close"]

\* a loop that ends the session on a packet it has no branch for
PacketIgnoredEndsSession(pcs, c) == [pcs EXCEPT ![L(c)] = "close"]
\* lines 288-290: Silence passes, a type that no branch matches falls
\* through, and the loop goes on to its condition
PacketIgnored(pcs, c) == [pcs EXCEPT ![L(c)] = "top"]

\* _handle_audio_packet: one input frame for the payload, pushed to the
\* pipeline
HandleAudioPacket(c) ==
    events' = Append(events, Ev("frame", <<>>, rd[c], cur[c].n, TRUE))

\* lines 276-290, the packet by its type; on_client_connected and
\* push_audio_frame may suspend in pipeline code; a SessionId that does not
\* decode and audio that is not whole samples raise
Dispatch(c) ==
    LET p == cur[c] IN
    /\ running = L(c)
    /\ pc[L(c)] = "dispatch"
    /\ cur' = [cur EXCEPT ![c] = NoPacket]
    /\ IF p.type = AUDIOSOCKET_TYPE_TERMINATE
       THEN /\ pc' = [pc EXCEPT ![L(c)] = "close"]
            /\ events' = Append(events, Ev("terminate", <<>>, rd[c], p.n, TRUE))
            /\ UNCHANGED <<call_uuid, out_writer, running>>
       ELSE IF p.type = AUDIOSOCKET_TYPE_UUID /\ ~Utf8Valid(p.payload)
       THEN /\ pc' = PacketError(pc, c)
            /\ events' = Append(events, Ev("error", <<>>, rd[c], p.n, FALSE))
            /\ running' = IF pc'[L(c)] = "done" THEN NoTask ELSE L(c)
            /\ UNCHANGED <<call_uuid, out_writer>>
       ELSE IF p.type = AUDIOSOCKET_TYPE_AUDIO /\ ~WholeSamples(p.payload)
       THEN /\ pc' = PacketError(pc, c)
            /\ events' = Append(events, Ev("error", <<>>, rd[c], p.n, FALSE))
            /\ running' = IF pc'[L(c)] = "done" THEN NoTask ELSE L(c)
            /\ UNCHANGED <<call_uuid, out_writer>>
       ELSE IF p.type = AUDIOSOCKET_TYPE_UUID
       THEN /\ call_uuid' = Some(Strip(p.payload), rd[c])
            /\ OnClientConnected(Strip(p.payload), rd[c], p.n)
            /\ \E suspends \in MaySuspend("connected") :
                  /\ pc' = [pc EXCEPT ![L(c)] =
                               IF suspends THEN "conn_cb" ELSE "top"]
                  /\ running' = IF suspends THEN NoTask ELSE L(c)
       ELSE IF p.type = AUDIOSOCKET_TYPE_AUDIO
       THEN /\ HandleAudioPacket(c)
            /\ \E suspends \in MaySuspend("push") :
                  /\ pc' = [pc EXCEPT ![L(c)] =
                               IF suspends THEN "push" ELSE "top"]
                  /\ running' = IF suspends THEN NoTask ELSE L(c)
            /\ UNCHANGED <<call_uuid, out_writer>>
       ELSE /\ pc' = PacketIgnored(pc, c)
            /\ UNCHANGED <<call_uuid, out_writer, events, running>>
    /\ UNCHANGED <<env, fn, startup, tsock, stop_awaits, initialized, server, nconn, sock, netVars, waiter,
                   closeWaiters, reader, writer, receive_task, rd, wsock,
                   nsub, wire, ready>>

\* the finally clause's _close_client_connection has returned: the task ends
ReceiveDone(c) ==
    /\ running = L(c)
    /\ pc[L(c)] = "after_close"
    /\ pc' = [pc EXCEPT ![L(c)] = "done"]
    /\ running' = NoTask
    /\ ready' = Wake(ready, IF stop_awaits = L(c) THEN S ELSE NoTask)
    /\ UNCHANGED <<env, fn, startup, tsock, stop_awaits, initialized, server, nconn,
                   sock, netVars, waiter, closeWaiters, inVars, out_writer,
                   rd, cur, wsock, nsub, wire, events>>

\* ----------------------------------------------------------------- network
\* a whole packet arrives on connection s (feed_data wakes the parked reader)
PeerSend(s) ==
    /\ Idle
    /\ sock[s] = "open"
    /\ ~eof[s]
    /\ MayStimulate
    /\ SumTo(sent, MaxConns) < env.packets
    /\ sent' = [sent EXCEPT ![s] = @ + 1]
    /\ avail' = [avail EXCEPT ![s] = @ + 1]
    /\ ready' = Wake(ready, waiter[s])
    /\ waiter' = [waiter EXCEPT ![s] = NoTask]
    /\ UNCHANGED <<env, fn, startup, tsock, stop_awaits, initialized, server, nconn, sock, eof, peer_closed,
                   partial, leftover, closeWaiters, inVars, out_writer, pc,
                   rd, cur, wsock, nsub, wire, running, events>>

\* the peer closes connection s, after a whole packet or in the middle of one
\* (feed_eof wakes the parked reader)
PeerClose(s, cut) ==
    /\ Idle
    /\ sock[s] = "open"
    /\ ~eof[s]
    /\ MayStimulate
    /\ eof' = [eof EXCEPT ![s] = TRUE]
    /\ peer_closed' = [peer_closed EXCEPT ![s] = TRUE]
    /\ partial' = [partial EXCEPT ![s] = cut]
    /\ leftover' = [leftover EXCEPT ![s] = cut # "none"]
    /\ ready' = Wake(ready, waiter[s])
    /\ waiter' = [waiter EXCEPT ![s] = NoTask]
    /\ UNCHANGED <<env, fn, startup, tsock, stop_awaits, initialized, server, nconn, sock, avail, sent,
                   closeWaiters, inVars, out_writer, pc, rd, cur, wsock, nsub,
                   wire, running, events>>

\* StreamReaderProtocol.connection_lost of connection s, scheduled by the
\* transport's close(): EOF is fed to the reader, then the close waiters and
\* the drain waiter are woken, in this order
ConnectionLost(s) ==
    /\ Runs(X(s))
    /\ sock' = [sock EXCEPT ![s] = "closed"]
    /\ eof' = [eof EXCEPT ![s] = TRUE]
    /\ ready' = Wake(Wake(WakeAll(Wake(Rest, waiter[s]), closeWaiters[s]),
                          IF pc[W] = "drain" /\ wsock = s THEN W ELSE NoTask),
                     IF pc[T] = "drain" /\ tsock = s THEN T ELSE NoTask)
    /\ waiter' = [waiter EXCEPT ![s] = NoTask]
    /\ closeWaiters' = [closeWaiters EXCEPT ![s] = <<>>]
    /\ running' = NoTask
    /\ UNCHANGED <<env, fn, startup, tsock, stop_awaits, initialized, server, nconn, avail, sent, peer_closed,
                   partial, leftover, inVars, out_writer, pc, rd, cur, wsock,
                   nsub, wire, events>>

\* ------------------------------------------------------------------ output
\* _build_audio_packet: an Audio packet around the frame's audio
BuildAudioPacket(audio) == Packet(AUDIOSOCKET_TYPE_AUDIO, audio)

\* what a packet is on the wire: its header, then its payload if it has one
Piece(part, p) ==
    [part |-> part, type |-> p.type, len |-> Len(p.payload), n |-> p.n]
\* a packet handed over in two writes, of which only the first has happened
PiecesHeaderFirst(p) == <<Piece("header", p)>>
\* lines 417-418 and 449-450: the packet is built whole, header and payload
\* in one bytes object, before it is written
Pieces(p) ==
    <<Piece("header", p)>>
    \o (IF p.payload = <<>> THEN <<>> ELSE <<Piece("payload", p)>>)
\* a write that jumps the queue of the socket's buffer
TransportWriteAhead(buf, p) == Pieces(p) \o buf
\* StreamWriter.write(packet): the whole packet joins the socket's buffer
TransportWrite(buf, p) == buf \o Pieces(p)

\* write_audio_frame up to its first suspension.  Without a writer it returns
\* False.  Else the packet is written (the transport drops what is written
\* after close()) and drain() is awaited: on a closing transport it yields
\* once, on an open one it returns at once or parks until the socket is
\* writable again.
WriteAudioFrame ==
    LET n == nsub + 1
        w == out_writer
        sub == Append(events, Ev("submit", <<>>, w, n, TRUE))
    IN
    /\ Idle
    /\ pc[W] = "none"
    /\ MayStimulate
    /\ nsub < env.frames
    /\ nsub' = n
    /\ IF w = NoConn
       THEN /\ events' = Append(sub, Ev("return", <<>>, NoConn, n, FALSE))
            /\ UNCHANGED <<wire, wsock, pc, ready>>
       ELSE /\ wire' = [wire EXCEPT ![w] =
                           IF sock[w] = "open"
                           THEN TransportWrite(@,
                                    [BuildAudioPacket(<<"x">>) EXCEPT !.n = n])
                           ELSE @]
            /\ IF sock[w] # "open"
               THEN /\ events' = Append(sub, Ev("write", <<>>, w, n, FALSE))
                    /\ pc' = [pc EXCEPT ![W] = "drain"]
                    /\ wsock' = w
                    /\ ready' = Append(ready, W)
               ELSE \E paused \in BOOLEAN :
                      IF paused
                      THEN /\ events' =
                                Append(sub, Ev("write", <<>>, w, n, TRUE))
                           /\ pc' = [pc EXCEPT ![W] = "drain"]
                           /\ wsock' = w
                           /\ UNCHANGED ready
                      ELSE /\ events' =
                                Append(Append(sub,
                                    Ev("write", <<>>, w, n, TRUE)),
                                    Ev("return", <<>>, w, n, TRUE))
                           /\ UNCHANGED <<pc, wsock, ready>>
    /\ UNCHANGED <<env, fn, startup, tsock, stop_awaits, initialized, server, nconn, sock, netVars, waiter,
                   closeWaiters, inVars, out_writer, rd, cur, running>>

\* the socket the pending drain() waits for can be written again
\* (resume_writing wakes the drain waiter)
Writable ==
    /\ Idle
    /\ pc[W] = "drain"
    /\ sock[wsock] = "open"
    /\ W \notin Range(ready)
    /\ ready' = Append(ready, W)
    /\ UNCHANGED <<env, fn, startup, tsock, stop_awaits, initialized, server, nconn, sock, netVars, waiter,
                   closeWaiters, inVars, out_writer, pc, rd, cur, wsock, nsub,
                   wire, running, events>>

\* a write_audio_frame that lets the exception of a failed drain() escape to
\* its caller
WriteAudioFrameDoneRaising ==
    /\ Runs(W)
    /\ pc[W] = "drain"
    /\ events' = Append(events,
                   Ev(IF sock[wsock] = "closed" THEN "raise" ELSE "return",
                      <<>>, wsock, nsub, sock[wsock] # "closed"))
    /\ pc' = [pc EXCEPT ![W] = "none"]
    /\ wsock' = NoConn
    /\ ready' = Rest
    /\ running' = NoTask
    /\ UNCHANGED <<env, fn, startup, tsock, stop_awaits, initialized, server, nconn, sock, netVars,
                   waiter, closeWaiters, inVars, out_writer, rd, cur, nsub,
                   wire>>

\* write_audio_frame after drain(): True, or False when drain() raised
\* ConnectionResetError because the connection was lost
WriteAudioFrameDone ==
    /\ Runs(W)
    /\ pc[W] = "drain"
    /\ events' = Append(events,
                   Ev("return", <<>>, wsock, nsub, sock[wsock] # "closed"))
    /\ pc' = [pc EXCEPT ![W] = "none"]
    /\ wsock' = NoConn
    /\ ready' = Rest
    /\ running' = NoTask
    /\ UNCHANGED <<env, fn, startup, tsock, stop_awaits, initialized, server, nconn, sock, netVars, waiter,
                   closeWaiters, inVars, out_writer, rd, cur, nsub, wire>>

\* AudioSocketOutputTransport.stop, and _send_terminate up to its first
\* suspension.  Without a writer nothing is sent.  Else a Terminate packet
\* is written and drain() is awaited, as in write_audio_frame; ok tells
\* whether the send went through.
OutputStop ==
    LET w == out_writer
        called == Append(events, Ev("stop_output", <<>>, w, nsub, TRUE))
    IN
    /\ Idle
    /\ pc[T] = "none"
    /\ MayStimulate
    /\ IF w = NoConn
       THEN /\ events' = Append(called,
                            Ev("stop_output_return", <<>>, NoConn, nsub, FALSE))
            /\ pc' = [pc EXCEPT ![T] = "stopped"]
            /\ UNCHANGED <<wire, tsock, ready>>
       ELSE /\ wire' = [wire EXCEPT ![w] =
                           IF sock[w] = "open"
                           THEN TransportWrite(@,
                                    [Packet(AUDIOSOCKET_TYPE_TERMINATE, <<>>)
                                       EXCEPT !.n = nsub])
                           ELSE @]
            /\ IF sock[w] # "open"
               THEN /\ events' = called
                    /\ pc' = [pc EXCEPT ![T] = "drain"]
                    /\ tsock' = w
                    /\ ready' = Append(ready, T)
               ELSE \E paused \in BOOLEAN :
                      IF paused
                      THEN /\ events' = called
                           /\ pc' = [pc EXCEPT ![T] = "drain"]
                           /\ tsock' = w
                           /\ UNCHANGED ready
                      ELSE /\ events' =
                                Append(called, Ev("stop_output_return", <<>>,
                                                  w, nsub, TRUE))
                           /\ pc' = [pc EXCEPT ![T] = "stopped"]
                           /\ UNCHANGED <<tsock, ready>>
    /\ UNCHANGED <<env, fn, startup, stop_awaits, initialized, server, nconn, sock, netVars,
                   waiter,
                   closeWaiters, inVars, out_writer, rd, cur, wsock, nsub,
                   running>>

\* the socket the Terminate packet's drain() waits for can be written again
WritableTerminate ==
    /\ Idle
    /\ pc[T] = "drain"
    /\ sock[tsock] = "open"
    /\ T \notin Range(ready)
    /\ ready' = Append(ready, T)
    /\ UNCHANGED <<env, fn, startup, tsock, stop_awaits, initialized, server, nconn, sock, netVars,
                   waiter, closeWaiters, inVars, out_writer, pc, rd, cur,
                   wsock, nsub, wire, running, events>>

\* _send_terminate after drain(): the output endpoint's stop returns, whether
\* drain() returned or raised (lines 453-454 log the exception)
SendTerminateDone ==
    /\ Runs(T)
    /\ pc[T] = "drain"
    /\ events' = Append(events, Ev("stop_output_return", <<>>, tsock, nsub,
                                   sock[tsock] # "closed"))
    /\ pc' = [pc EXCEPT ![T] = "stopped"]
    /\ tsock' = NoConn
    /\ ready' = Rest
    /\ running' = NoTask
    /\ UNCHANGED <<env, fn, startup, stop_awaits, initialized, server, nconn, sock, netVars,
                   waiter,
                   closeWaiters, inVars, out_writer, rd, cur, wsock, nsub,
                   wire>>

\* ----------------------------------------------------------- stop, cancel
\* the two ways the pipeline shuts the input endpoint down
StopKinds == {"stop", "cancel"}

\* where a CancelledError lands in a receive task that is suspended at p:
\* before its first step the coroutine never runs; inside the try body the
\* except clause re-raises and the finally clause runs the cleanup; inside
\* the cleanup (wait_closed, the disconnected callback) the error leaves
\* _close_client_connection and the task at once
CancelAt(p) ==
    IF p \in {"wait_hdr", "conn_cb", "push"} THEN "cancel_try"
    ELSE IF p \in {"start", "wait_closed", "disc_cb"} THEN "cancel_exit"
    ELSE p

\* q without task t
Without(q, t) == SelectSeq(q, LAMBDA u : u # t)

\* AudioSocketInputTransport.stop and cancel, to the first suspension (the
\* pipeline sends its EndFrame or CancelFrame after its StartFrame): stop
\* sets the stop event, which wakes the server task; both cancel the receive
\* task in place, if there is one, and await its end
StopInput(kind) ==
    LET l == receive_task
        live == l # NoTask /\ pc[l] # "done"
        q == IF kind = "stop" /\ server = "listening"
             THEN Wake(ready, V) ELSE ready
    IN
    /\ Idle
    /\ initialized
    /\ pc[S] = "none"
    /\ MayStimulate
    /\ events' = Append(events, Ev(kind, <<>>, reader, 0, TRUE))
    /\ IF live
       THEN /\ pc' = [pc EXCEPT ![S] = "await_receive",
                                ![l] = CancelAt(pc[l])]
            /\ stop_awaits' = l
            /\ waiter' = [c \in Conns |->
                             IF waiter[c] = l THEN NoTask ELSE waiter[c]]
            /\ closeWaiters' = [c \in Conns |-> Without(closeWaiters[c], l)]
            /\ ready' = Wake(q, l)
            /\ running' = NoTask
            /\ UNCHANGED receive_task
       ELSE /\ pc' = [pc EXCEPT ![S] = "server"]
            /\ receive_task' = NoTask
            /\ ready' = q
            /\ running' = S
            /\ UNCHANGED <<stop_awaits, waiter, closeWaiters>>
    /\ UNCHANGED <<env, fn, startup, tsock, initialized, server, nconn, sock, netVars,
                   reader, writer, call_uuid, out_writer, rd, cur, wsock,
                   nsub, wire>>

\* the cancelled receive task takes its CancelledError
Cancelled(c) ==
    /\ Runs(L(c))
    /\ pc[L(c)] \in {"cancel_try", "cancel_exit"}
    /\ IF pc[L(c)] = "cancel_try"
       THEN /\ pc' = [pc EXCEPT ![L(c)] = "close"]
            /\ running' = L(c)
            /\ ready' = Rest
       ELSE /\ pc' = [pc EXCEPT ![L(c)] = "done"]
            /\ running' = NoTask
            /\ ready' = Wake(Rest, IF stop_awaits = L(c) THEN S ELSE NoTask)
    /\ UNCHANGED <<env, fn, startup, tsock, stop_awaits, initialized, server, nconn,
                   sock, netVars, waiter, closeWaiters, inVars, out_writer,
                   rd, cur, wsock, nsub, wire, events>>

\* lines 180-182 and 200-202: the awaited receive task has ended
StopAfterReceive ==
    /\ Runs(S)
    /\ pc[S] = "await_receive"
    /\ receive_task' = NoTask
    /\ stop_awaits' = NoTask
    /\ pc' = [pc EXCEPT ![S] = "server"]
    /\ running' = S
    /\ ready' = Rest
    /\ UNCHANGED <<env, fn, startup, tsock, initialized, server, nconn, sock, netVars,
                   waiter, closeWaiters, reader, writer, call_uuid,
                   out_writer, rd, cur, wsock, nsub, wire, events>>

\* lines 184-186 and 204-206: await the server task (cancel cancels it
\* first), unless there is none or it has ended
StopAwaitServer ==
    /\ running = S
    /\ pc[S] = "server"
    /\ IF server = "listening"
       THEN /\ pc' = [pc EXCEPT ![S] = "await_server"]
            /\ ready' = Wake(ready, V)
            /\ running' = NoTask
       ELSE /\ pc' = [pc EXCEPT ![S] = "close"]
            /\ UNCHANGED <<ready, running>>
    /\ UNCHANGED <<env, fn, startup, tsock, stop_awaits, initialized, server, nconn,
                   sock, netVars, waiter, closeWaiters, inVars, out_writer,
                   rd, cur, wsock, nsub, wire, events>>

\* _server_task_handler leaves "async with self._server", by the stop event
\* or by cancellation: the listening socket is closed (wait_closed() of the
\* server is taken to return once it is) and the task ends
ServerTaskExit ==
    /\ Runs(V)
    /\ server' = "closed"
    /\ ready' = Wake(Rest, IF pc[S] = "await_server" THEN S ELSE NoTask)
    /\ running' = NoTask
    /\ UNCHANGED <<env, fn, startup, tsock, stop_awaits, initialized, nconn, sock,
                   netVars, waiter, closeWaiters, inVars, out_writer, pc, rd,
                   cur, wsock, nsub, wire, events>>

\* the awaited server task has ended: go on to _close_client_connection
StopAfterServer ==
    /\ Runs(S)
    /\ pc[S] = "await_server"
    /\ pc' = [pc EXCEPT ![S] = "close"]
    /\ running' = S
    /\ ready' = Rest
    /\ UNCHANGED <<env, fn, startup, tsock, stop_awaits, initialized, server, nconn,
                   sock, netVars, waiter, closeWaiters, inVars, out_writer,
                   rd, cur, wsock, nsub, wire, events>>

\* stop or cancel returns after its _close_client_connection
StopDone ==
    /\ running = S
    /\ pc[S] = "after_close"
    /\ pc' = [pc EXCEPT ![S] = "stopped"]
    /\ running' = NoTask
    /\ events' = Append(events, Ev("stop_return", <<>>, NoConn, 0, TRUE))
    /\ UNCHANGED <<env, fn, startup, tsock, stop_awaits, initialized, server, nconn,
                   sock, netVars, waiter, closeWaiters, inVars, out_writer,
                   rd, cur, wsock, nsub, wire, ready>>

\* ------------------------------------------------------------ specification
Next ==
    \/ Start
    \/ \E c \in Conns : Accept(c)
    \/ \E c \in Conns : ClientHandler(c)
    \/ \E c \in Conns : ClientHandlerResume(c)
    \/ \E t \in Closers : CloseWriter(t)
    \/ \E t \in Closers : CloseWriterDone(t)
    \/ \E t \in Closers : CloseNotify(t)
    \/ \E t \in Closers : CloseClear(t)
    \/ \E t \in Closers : CallbackReturns(t)
    \/ \E c \in Conns : LoopTest(c)
    \/ \E c \in Conns : ReadHeader(c)
    \/ \E c \in Conns : ReadPayload(c)
    \/ \E c \in Conns : Dispatch(c)
    \/ \E c \in Conns : ReceiveDone(c)
    \/ \E s \in Conns : PeerSend(s)
    \/ \E s \in Conns, cut \in {"none", "hdr", "pay"} : PeerClose(s, cut)
    \/ \E s \in Conns : ConnectionLost(s)
    \/ WriteAudioFrame
    \/ Writable
    \/ WriteAudioFrameDone

Spec == Init /\ [][Next]_vars

\* Calls that follow one another closely: peers that connect and identify
\* themselves and never hang up, and a pipeline that plays audio to them.
InitHandover ==
    /\ env = [budget |-> MaxHandover, packets |-> MaxHandoverPackets,
              frames |-> MaxHandoverFrames, slow |-> {"disconnected"},
              menu |-> {Packet(AUDIOSOCKET_TYPE_UUID, <<"a">>)},
              faulty |-> {}]
    /\ fn = NoCall
    /\ Constructed

NextHandover ==
    \/ Start
    \/ \E c \in Conns : Accept(c)
    \/ \E c \in Conns : ClientHandler(c)
    \/ \E c \in Conns : ClientHandlerResume(c)
    \/ \E t \in Closers : CloseWriter(t)
    \/ \E t \in Closers : CloseWriterDone(t)
    \/ \E t \in Closers : CloseNotify(t)
    \/ \E t \in Closers : CloseClear(t)
    \/ \E t \in Closers : CallbackReturns(t)
    \/ \E c \in Conns : LoopTest(c)
    \/ \E c \in Conns : ReadHeader(c)
    \/ \E c \in Conns : ReadPayload(c)
    \/ \E c \in Conns : Dispatch(c)
    \/ \E c \in Conns : ReceiveDone(c)
    \/ \E s \in Conns : PeerSend(s)
    \/ \E s \in Conns : ConnectionLost(s)
    \/ WriteAudioFrame
    \/ Writable
    \/ WriteAudioFrameDone

SpecHandover == InitHandover /\ [][NextHandover]_vars

\* The bridge with its shutdown: the output endpoint's stop, and stop or
\* cancel of the input endpoint.
NextShutdown ==
    \/ Next
    \/ OutputStop
    \/ WritableTerminate
    \/ SendTerminateDone
    \/ \E kind \in StopKinds : StopInput(kind)
    \/ \E c \in Conns : Cancelled(c)
    \/ StopAfterReceive
    \/ StopAwaitServer
    \/ ServerTaskExit
    \/ StopAfterServer
    \/ StopDone

SpecShutdown == Init /\ [][NextShutdown]_vars

\* Sessions that fail: calls that come one after the other, each with a
\* non-blank identifier, among whose packets are a SessionId that is not
\* UTF-8 and audio with an odd number of bytes, a pipeline whose connected
\* and disconnected handlers may raise, and peers that hang up between
\* packets.
FaultPackets ==
    {Packet(AUDIOSOCKET_TYPE_UUID, <<"a">>),
     Packet(AUDIOSOCKET_TYPE_UUID, <<"b", SP>>),
     Packet(AUDIOSOCKET_TYPE_UUID, <<BadByte>>),
     Packet(AUDIOSOCKET_TYPE_AUDIO, AudioPayload),
     Packet(AUDIOSOCKET_TYPE_AUDIO, <<"x">>),
     Packet(AUDIOSOCKET_TYPE_TERMINATE, <<>>)}

InitFault ==
    /\ env = [budget |-> MaxFault, packets |-> MaxFaultPackets, frames |-> 0,
              slow |-> {}, menu |-> FaultPackets,
              faulty |-> {"connected", "disconnected"}]
    /\ fn = NoCall
    /\ Constructed

\* a peer connects when the call before it is over
AcceptNext(c) ==
    /\ \A d \in Conns : pc[H(d)] \in {"none", "done"}
    /\ \A d \in Conns : pc[L(d)] \in {"none", "done"}
    /\ Accept(c)

NextFault ==
    \/ Start
    \/ \E c \in Conns : AcceptNext(c)
    \/ \E c \in Conns : ClientHandler(c)
    \/ \E t \in Closers : CloseWriter(t)
    \/ \E t \in Closers : CloseWriterDone(t)
    \/ \E t \in Closers : CloseNotify(t)
    \/ \E t \in Closers : CloseClear(t)
    \/ \E c \in Conns : LoopTest(c)
    \/ \E c \in Conns : ReadHeader(c)
    \/ \E c \in Conns : ReadPayload(c)
    \/ \E c \in Conns : Dispatch(c)
    \/ \E c \in Conns : ReceiveDone(c)
    \/ \E s \in Conns : PeerSend(s)
    \/ \E s \in Conns : PeerClose(s, "none")
    \/ \E s \in Conns : ConnectionLost(s)

SpecFault == InitFault /\ [][NextFault]_vars


\* -------------------------------------------------------------- the codec
\* A byte string: the bytes of "first", then "more" bytes of value "fill".
\* Long payloads are kept in this form; what the codec does to them (length,
\* concatenation, slicing) is computed on it.
Bytes(first, fill, more) == [first |-> first, fill |-> fill, more |-> more]
Explicit(bs) == Bytes(bs, 0, 0)
BLen(b) == Len(b.first) + b.more
\* b[i], counting from 0
BAt(b, i) == IF i < Len(b.first) THEN b.first[i + 1] ELSE b.fill
\* a + b, for an a that is explicit
BCat(a, b) == Bytes(a.first \o b.first, b.fill, b.more)
\* b[:k]
BTake(b, k) ==
    IF k <= Len(b.first)
    THEN Explicit(SubSeq(b.first, 1, k))
    ELSE Bytes(b.first, b.fill,
               IF k - Len(b.first) < b.more THEN k - Len(b.first) ELSE b.more)
\* b[k:]
BDrop(b, k) ==
    IF k <= Len(b.first)
    THEN Bytes(SubSeq(b.first, k + 1, Len(b.first)), b.fill, b.more)
    ELSE Bytes(<<>>, b.fill,
               IF k - Len(b.first) < b.more
               THEN b.more - (k - Len(b.first)) ELSE 0)
\* equality of contents: the fill of a string without a tail does not count
BEq(a, b) ==
    /\ BLen(a) = BLen(b)
    /\ \A i \in 0..(Len(a.first) + Len(b.first)) :
          i < BLen(a) => BAt(a, i) = BAt(b, i)
    /\ (a.more > 0 /\ b.more > 0) => a.fill = b.fill

\* what a failed call leaves: the exception in place of a value
Raised(e) == [raised |-> e]
HasRaised(v) == "raised" \in DOMAIN v

\* the ranges of the format characters B and H of struct
U8Max == 255
U16Max == 65535
\* struct.pack(">BH", t, n): one byte, then two bytes with the high one first
PackBH(t, n) ==
    IF t \in 0..U8Max /\ n \in 0..U16Max
    THEN Explicit(<<t, n \div 256, n % 256>>)
    ELSE Raised("struct.error")
\* a little-endian reading of the length, which no peer of the code uses
UnpackHLittle(b) == BAt(b, 0) + 256 * BAt(b, 1)
\* struct.unpack(">H", b)[0]
UnpackH(b) == 256 * BAt(b, 0) + BAt(b, 1)

\* mock_audiosocket_client.build_packet
build_packet(packet_type, payload) ==
    LET header == PackBH(packet_type, BLen(payload)) IN
    IF HasRaised(header) THEN header ELSE BCat(header, payload)

\* the value None, where a packet type is expected
NoType == -1
\* a decoder that takes the length from the bytes that follow the header
parse_packet_counting(data) ==
    IF BLen(data) < 3
    THEN [type |-> -1, len |-> 0]
    ELSE [type |-> BAt(data, 0), len |-> BLen(data) - 3]
\* mock_audiosocket_client.parse_packet
parse_packet(data) ==
    IF BLen(data) < 3
    THEN [type |-> -1, len |-> 0]
    ELSE [type |-> BAt(data, 0), len |-> UnpackH(BDrop(BTake(data, 3), 1))]

\* _receive_packets, lines 266-273, on a stream that holds data and then
\* ends: the header's fields and the payload, or IncompleteReadError
receive_packet(data) ==
    IF BLen(data) < 3 THEN Raised("IncompleteReadError") ELSE
    LET header == BTake(data, 3)
        packet_type == BAt(header, 0)
        payload_length == UnpackH(BDrop(header, 1))
        rest == BDrop(data, 3)
    IN  IF payload_length > BLen(rest) THEN Raised("IncompleteReadError")
        ELSE [type |-> packet_type, len |-> payload_length,
              payload |-> BTake(rest, payload_length)]

\* _build_audio_packet at the level of bytes
build_audio_packet(audio_data) ==
    LET header == PackBH(AUDIOSOCKET_TYPE_AUDIO, BLen(audio_data)) IN
    IF HasRaised(header) THEN header ELSE BCat(header, audio_data)

\* a resample_audio without the shortcut for equal rates: the audio always
\* goes through frombuffer and signal.resample
resample_audio_always(audio, from_rate, to_rate) ==
    IF BLen(audio) % 2 # 0 THEN Raised("ValueError")
    ELSE LET num_samples == ((BLen(audio) \div 2) * to_rate) \div from_rate
         IN  Bytes(<<>>, 0, 2 * num_samples)
\* resample_audio on the length of the audio: the two rates equal, the
\* input is returned; else frombuffer wants whole 16-bit samples and
\* int(len * to_rate / from_rate) samples come back.  The values of the
\* samples are left open here: the bytes returned are written as zeroes.
resample_audio(audio, from_rate, to_rate) ==
    IF from_rate = to_rate THEN audio
    ELSE IF BLen(audio) % 2 # 0 THEN Raised("ValueError")
    ELSE LET num_samples == ((BLen(audio) \div 2) * to_rate) \div from_rate
         IN  Bytes(<<>>, 0, 2 * num_samples)

\* write_audio_frame with a writer attached and a socket that takes the
\* bytes: the result and the packets handed to writer.write
write_frame(audio) ==
    LET resampled == resample_audio(audio, PIPECAT_SAMPLE_RATE,
                                    ASTERISK_SAMPLE_RATE)
        packet == build_audio_packet(resampled)
    IN  IF HasRaised(resampled) \/ HasRaised(packet)
        THEN [ok |-> FALSE, written |-> <<>>]
        ELSE [ok |-> TRUE, written |-> <<packet>>]

\* the calls that are tried: tags, payloads and output frames around the
\* limits of the header's fields
CodecTags == {AUDIOSOCKET_TYPE_TERMINATE, AUDIOSOCKET_TYPE_UUID, UnknownTag,
              AUDIOSOCKET_TYPE_AUDIO, AUDIOSOCKET_TYPE_SILENCE, U8Max}
CodecPayloads ==
    {Explicit(<<>>), Explicit(<<7>>), Explicit(<<1, 0>>),
     Bytes(<<9>>, 3, U8Max - 1), Bytes(<<9>>, 3, U8Max),
     Bytes(<<0, 1>>, 5, U8Max), Bytes(<<1>>, 2, U16Max - 2),
     Bytes(<<1>>, 2, U16Max - 1), Bytes(<<1>>, 2, U16Max)}
FrameAudios ==
    {Explicit(<<1, 2>>), Explicit(<<1, 2, 3>>), Bytes(<<>>, 4, 640),
     Bytes(<<>>, 4, 2 * U16Max - 2), Bytes(<<>>, 4, 2 * U16Max),
     Bytes(<<>>, 4, 2 * U16Max + 1), Bytes(<<>>, 4, 2 * U16Max + 2),
     Bytes(<<>>, 4, 4 * U16Max)}
Call(op, t, p, a) ==
    [op |-> op, type |-> t, payload |-> p, audio |-> a, packet |-> NoCall,
     parsed |-> NoCall, received |-> NoCall, result |-> NoCall]

\* what a decoder may be given: less than a header, a header alone, a header
\* with less, as much and more behind it than it declares
DecoderData ==
    {Explicit(<<>>), Explicit(<<AUDIOSOCKET_TYPE_AUDIO>>),
     Explicit(<<AUDIOSOCKET_TYPE_AUDIO, 0>>),
     Explicit(<<AUDIOSOCKET_TYPE_AUDIO, 0, 2>>),
     Explicit(<<AUDIOSOCKET_TYPE_AUDIO, 0, 2, 7>>),
     Explicit(<<AUDIOSOCKET_TYPE_AUDIO, 0, 2, 7, 8>>),
     Explicit(<<AUDIOSOCKET_TYPE_AUDIO, 0, 2, 7, 8, 9>>),
     Explicit(<<AUDIOSOCKET_TYPE_UUID, 1, 0>>),
     Explicit(<<AUDIOSOCKET_TYPE_TERMINATE, 0, 0, 5>>),
     Explicit(<<U8Max, U8Max, U8Max>>),
     Bytes(<<AUDIOSOCKET_TYPE_AUDIO, 1, 64>>, 0, 320),
     Bytes(<<AUDIOSOCKET_TYPE_AUDIO, 1, 64>>, 0, 400)}

InitCodec ==
    /\ env = [budget |-> 0, packets |-> 0, frames |-> 0, slow |-> {},
              menu |-> {}, faulty |-> {}]
    /\ fn \in {Call("args", t, p, Explicit(<<>>)) :
                  t \in CodecTags, p \in CodecPayloads}
              \cup {Call("frame", AUDIOSOCKET_TYPE_AUDIO, Explicit(<<>>), a) :
                       a \in FrameAudios}
              \cup {[op |-> "data", data |-> d, parsed |-> NoCall,
                      received |-> NoCall] : d \in DecoderData}
    /\ Constructed

transportVars ==
    <<startup, tsock, stop_awaits, env, initialized, server, nconn, sock, netVars, waiter,
      closeWaiters, inVars, out_writer, pc, rd, cur, wsock, nsub, wire,
      ready, running, events>>

\* the client builds a packet
BuildPacketCall ==
    /\ fn.op = "args"
    /\ LET packet == build_packet(fn.type, fn.payload) IN
       fn' = [fn EXCEPT !.packet = packet,
                        !.op = IF HasRaised(packet) THEN "failed" ELSE "built"]
    /\ UNCHANGED transportVars

\* the client parses the header of what it built
ParsePacketCall ==
    /\ fn.op = "built"
    /\ fn' = [fn EXCEPT !.parsed = parse_packet(BTake(fn.packet, 3)),
                        !.op = "parsed"]
    /\ UNCHANGED transportVars

\* the receive loop reads the packet
ReceivePacketCall ==
    /\ fn.op = "parsed"
    /\ fn' = [fn EXCEPT !.received = receive_packet(fn.packet),
                        !.op = "received"]
    /\ UNCHANGED transportVars

\* the output endpoint writes a frame
WriteFrameCall ==
    /\ fn.op = "frame"
    /\ fn' = [fn EXCEPT !.result = write_frame(fn.audio), !.op = "written"]
    /\ UNCHANGED transportVars

\* a peer that uses the receive loop's header layout reads what was written
ReadBackCall ==
    /\ fn.op = "written"
    /\ fn.result.ok
    /\ fn' = [fn EXCEPT !.received = receive_packet(fn.result.written[1]),
                        !.packet = fn.result.written[1],
                        !.op = "read_back"]
    /\ UNCHANGED transportVars

\* the client's decoder is given the data
DecodeCall ==
    /\ fn.op = "data"
    /\ fn' = [fn EXCEPT !.parsed = parse_packet(fn.data), !.op = "decoded"]
    /\ UNCHANGED transportVars

\* the receive loop reads the same data from a stream that then ends
DecodeReceiveCall ==
    /\ fn.op = "decoded"
    /\ fn' = [fn EXCEPT !.received = receive_packet(fn.data),
                        !.op = "decoded_both"]
    /\ UNCHANGED transportVars

NextCodec ==
    \/ BuildPacketCall
    \/ ParsePacketCall
    \/ ReceivePacketCall
    \/ WriteFrameCall
    \/ ReadBackCall
    \/ DecodeCall
    \/ DecodeReceiveCall

SpecCodec == InitCodec /\ [][NextCodec]_vars

\* resample_audio on its own: audio of a few samples and of a 20 ms chunk,
\* whole samples and not, between the two rates of the bridge and a third
OtherRate == 44100
ResampleRates == {ASTERISK_SAMPLE_RATE, PIPECAT_SAMPLE_RATE, OtherRate}
ResampleAudios ==
    {Explicit(<<>>), Explicit(<<7>>), Explicit(<<1, 2>>),
     Explicit(<<1, 2, 3>>), Explicit(<<1, 2, 3, 4>>),
     Explicit(<<1, 2, 3, 4, 5, 6>>), Bytes(<<9>>, 4, 9), Bytes(<<9>>, 4, 13),
     Bytes(<<>>, 4, 320), Bytes(<<>>, 4, 321), Bytes(<<>>, 4, 640),
     Bytes(<<>>, 4, 642)}

\* the range of np.int16
Int16Min == -32768
Int16Max == 32767
\* values that signal.resample may hand to astype, counted in halves (a
\* float64 overshoots the range of the input where the signal jumps)
InterpolatedHalves ==
    {-131072, -80001, -65538, -65537, -65536, -65535, -3, -1, 0, 1, 3,
     65533, 65534, 65535, 65536, 65537, 80000, 131072, 131073}
\* the whole number a float of h halves is truncated to, toward zero
Truncated(h) == IF h >= 0 THEN h \div 2 ELSE -((-h) \div 2)
\* a whole number held to the range of np.int16
Clamped(v) ==
    IF v > Int16Max THEN Int16Max ELSE IF v < Int16Min THEN Int16Min ELSE v
\* the low 16 bits of a whole number, read as a signed value
Wrapped(v) == ((v - Int16Min) % (2 * (Int16Max + 1))) + Int16Min
\* line 113, ndarray.astype(np.int16) on one float64 value: the fraction is
\* dropped; for a value outside the range the C conversion is undefined and
\* the builds of numpy give the low 16 bits of the whole number or a value
\* at the end of the range
astype_int16(h) ==
    LET v == Truncated(h) IN
    IF Int16Min <= v /\ v <= Int16Max THEN {v}
    ELSE {Wrapped(v), Clamped(v)}

\* AudioSocketParams: the two rates an endpoint is configured with
Params(asterisk, pipeline) ==
    [asterisk_sample_rate |-> asterisk, pipeline_sample_rate |-> pipeline]
\* a frame as it is handed to the pipeline
InputAudioRawFrame(audio, rate, channels) ==
    [audio |-> audio, sample_rate |-> rate, num_channels |-> channels]
\* an input path that hands the payload on as it came
handle_audio_packet_raw(params, audio_data) ==
    InputAudioRawFrame(audio_data, params.pipeline_sample_rate, 1)
\* _handle_audio_packet: the payload is resampled from the telephony rate to
\* the pipeline rate and pushed as a frame of one channel at the pipeline
\* rate; a payload that resample_audio rejects yields no frame
handle_audio_packet(params, audio_data) ==
    LET resampled_audio == resample_audio(audio_data,
                                          params.asterisk_sample_rate,
                                          params.pipeline_sample_rate)
    IN  IF HasRaised(resampled_audio) THEN resampled_audio
        ELSE InputAudioRawFrame(resampled_audio,
                                params.pipeline_sample_rate, 1)

InitResample ==
    /\ env = [budget |-> 0, packets |-> 0, frames |-> 0, slow |-> {},
              menu |-> {}, faulty |-> {}]
    /\ fn \in {[op |-> "resample", audio |-> a, from_rate |-> f,
                 to_rate |-> t, result |-> NoCall] :
                   a \in ResampleAudios, f \in ResampleRates,
                   t \in ResampleRates}
             \cup {[op |-> "astype", value |-> h, result |-> NoCall] :
                      h \in InterpolatedHalves}
             \cup {[op |-> "packet", audio |-> a, params |-> Params(f, t),
                     result |-> NoCall] :
                      a \in ResampleAudios, f \in ResampleRates,
                      t \in ResampleRates}
    /\ Constructed

\* the audio is resampled
ResampleCall ==
    /\ fn.op = "resample"
    /\ fn' = [fn EXCEPT
                !.result = resample_audio(fn.audio, fn.from_rate, fn.to_rate),
                !.op = "resampled"]
    /\ UNCHANGED transportVars

\* a round trip that stops after the first resampling
resample_there(audio, from_rate, to_rate) ==
    resample_audio(audio, from_rate, to_rate)
\* the audio resampled to the other rate and back again, as audio that the
\* output path has written is resampled by the input path that receives it
resample_there_and_back(audio, from_rate, to_rate) ==
    LET there == resample_audio(audio, from_rate, to_rate) IN
    IF HasRaised(there) THEN there
    ELSE resample_audio(there, to_rate, from_rate)

\* the audio is resampled to the other rate and back
RoundTripCall ==
    /\ fn.op = "resample"
    /\ fn' = [fn EXCEPT
                !.result = resample_there_and_back(fn.audio, fn.from_rate,
                                                   fn.to_rate),
                !.op = "round_trip"]
    /\ UNCHANGED transportVars

\* an interpolated value is converted to a sample
AstypeCall ==
    /\ fn.op = "astype"
    /\ \E r \in astype_int16(fn.value) :
          fn' = [fn EXCEPT !.result = r, !.op = "sample"]
    /\ UNCHANGED transportVars

\* the payload of an Audio packet goes through _handle_audio_packet
HandleAudioCall ==
    /\ fn.op = "packet"
    /\ fn' = [fn EXCEPT
                !.result = handle_audio_packet(fn.params, fn.audio),
                !.op = "handled"]
    /\ UNCHANGED transportVars

NextResample ==
    \/ ResampleCall
    \/ RoundTripCall
    \/ AstypeCall
    \/ HandleAudioCall

SpecResample == InitResample /\ [][NextResample]_vars

\* ------------------------------------------------------------- the facade
\* AudioSocketTransport.__init__: no endpoint yet.  input and output hold the
\* endpoint instances (numbered as they are constructed, 0: None), made
\* counts the constructions, inputs and outputs are the instances that
\* input() and output() have returned.
NoEndpoint == 0
Facade ==
    [op |-> "facade", input |-> NoEndpoint, output |-> NoEndpoint,
     made |-> 0, inputs |-> {}, outputs |-> {}, calls |-> 0]

\* AudioSocketTransport.input
input(f) ==
    LET fresh == f.input = NoEndpoint
        made == IF fresh THEN f.made + 1 ELSE f.made
        it == IF fresh THEN made ELSE f.input
    IN  [f EXCEPT !.input = it, !.made = made, !.inputs = @ \cup {it},
                  !.calls = @ + 1]

\* an output() that constructs an endpoint on every call
output_fresh(f) ==
    LET made == f.made + 1 IN
    [f EXCEPT !.output = made, !.made = made, !.outputs = @ \cup {made},
              !.calls = @ + 1]
\* AudioSocketTransport.output
output(f) ==
    LET fresh == f.output = NoEndpoint
        made == IF fresh THEN f.made + 1 ELSE f.made
        it == IF fresh THEN made ELSE f.output
    IN  [f EXCEPT !.output = it, !.made = made, !.outputs = @ \cup {it},
                  !.calls = @ + 1]

\* Calls that follow one another: a pipeline built from input() and
\* output(), peers that connect when the call before is over, identify
\* themselves, send audio and Terminate or hang up, and a pipeline that
\* plays audio to them.
InitReconnect ==
    /\ env = [budget |-> MaxReconnect, packets |-> MaxReconnectPackets,
              frames |-> 1, slow |-> {},
              menu |-> {Packet(AUDIOSOCKET_TYPE_UUID, <<"a">>),
                        Packet(AUDIOSOCKET_TYPE_AUDIO, AudioPayload),
                        Packet(AUDIOSOCKET_TYPE_TERMINATE, <<>>)},
              faulty |-> {}]
    /\ fn = Facade
    /\ Constructed

InputCall ==
    /\ Idle
    /\ fn.calls < MaxFacadeCalls
    /\ fn' = input(fn)
    /\ UNCHANGED transportVars

OutputCall ==
    /\ Idle
    /\ fn.calls < MaxFacadeCalls
    /\ fn' = output(fn)
    /\ UNCHANGED transportVars

\* the pipeline, which was built from both endpoints, starts them
StartPipeline ==
    /\ fn.input # NoEndpoint
    /\ fn.output # NoEndpoint
    /\ Start

NextReconnect ==
    \/ InputCall
    \/ OutputCall
    \/ StartPipeline
    \/ \E c \in Conns : AcceptNext(c)
    \/ \E c \in Conns : ClientHandler(c)
    \/ \E t \in Closers : CloseWriter(t)
    \/ \E t \in Closers : CloseWriterDone(t)
    \/ \E t \in Closers : CloseNotify(t)
    \/ \E t \in Closers : CloseClear(t)
    \/ \E c \in Conns : LoopTest(c)
    \/ \E c \in Conns : ReadHeader(c)
    \/ \E c \in Conns : ReadPayload(c)
    \/ \E c \in Conns : Dispatch(c)
    \/ \E c \in Conns : ReceiveDone(c)
    \/ \E s \in Conns : PeerSend(s)
    \/ \E s \in Conns : PeerClose(s, "none")
    \/ \E s \in Conns : ConnectionLost(s)
    \/ WriteAudioFrame
    \/ Writable
    \/ WriteAudioFrameDone

SpecReconnect == InitReconnect /\ [][NextReconnect]_vars

\* ------------------------------------------------------------ observations
OpenSocks == {c \in Conns : sock[c] = "open"}

\* the receive tasks that are alive: created and not finished
LiveLoops == {c \in Conns : pc[L(c)] \notin {"none", "done"}}

\* every handler has returned and every receive task has finished or is
\* parked in a read: nothing is scheduled and nothing waits for a callback
Settled ==
    /\ running = NoTask
    /\ ready = <<>>
    /\ \A c \in Conns : pc[H(c)] \in {"none", "done"}
    /\ \A c \in Conns : pc[L(c)] \in {"none", "done", "wait_hdr"}
    /\ pc[W] = "none"

Indices == 1..Len(events)

\* ------------------------------------------------------------------ claims
\* C1: once all connection handlers and receive tasks have settled, at most
\* one client socket is open and at most one receive loop is running, that
\* socket is the most recently accepted one, and every earlier socket has
\* been closed.
C1_SingleLiveSession ==
    Settled =>
        /\ Cardinality(OpenSocks) <= 1
        /\ Cardinality(LiveLoops) <= 1
        /\ \A c \in OpenSocks : c = nconn


\* the events of one kind
Of(e) == {i \in Indices : events[i].ev = e}
\* the packets of connection s that were processed, as events
On(e, s) == {i \in Of(e) : events[i].sock = s}
\* connection b was accepted while a was in place, after a's connected fired
EvictedActive(a, b) ==
    \E i \in On("connected", a), j \in On("evict", b) :
        i < j /\ events[j].n = a

\* C2: when A has reached Active and B is then accepted, A's socket ends
\* closed, B's socket stays open and is serviced, disconnected(A) fires before
\* connected(B), and the cleanup run by A's receive task never closes B's
\* socket.
C2_EvictionOrdering ==
    \A a \in Conns, b \in Conns :
        (a # b /\ EvictedActive(a, b)) =>
            \* A's receive task closes no socket but A's
            /\ (running = L(a) /\ pc[L(a)] = "close") => writer \in {NoConn, a}
            \* disconnected(A) before connected(B)
            /\ \A j \in On("connected", b) :
                  \E i \in On("connected", a), k \in On("disconnected", a) :
                      i < k /\ k < j /\ events[k].id = events[i].id
            \* with nothing more from outside, A is closed and B serviced
            /\ (Settled /\ nconn = b /\ ~peer_closed[b]
                    /\ On("terminate", b) = {}) =>
                  /\ sock[a] = "closed"
                  /\ sock[b] = "open"
                  /\ pc[L(b)] = "wait_hdr" /\ rd[b] = b


\* C3: within one session connected fires once: a further SessionId packet on
\* the same connection fires no second connected notification and does not
\* change the call identifier.
C3_ConnectedOnce ==
    \A s \in Conns :
        /\ Cardinality(On("connected", s)) <= 1
        /\ \A i \in On("connected", s) :
              (call_uuid.set /\ call_uuid.by = s) => call_uuid.s = events[i].id

\* C4: each disconnected is preceded by a connected of the same session, with
\* no other disconnected of that session in between.
C4_DisconnectedOnce ==
    \A k \in Of("disconnected") :
        \E i \in On("connected", events[k].sock) :
            /\ i < k
            /\ events[i].id = events[k].id
            /\ \A m \in On("disconnected", events[k].sock) : ~(i < m /\ m < k)

\* the session of connection s is over: its socket is closed and nothing of
\* the transport is still running or scheduled
Ended(s) == Settled /\ sock[s] = "closed"

\* C5: every session in which connected(callId) fired gets
\* disconnected(callId) with the same callId once the session has ended,
\* whatever the call identifier payload was.
C5_DisconnectedFollows ==
    \A s \in Conns :
        Ended(s) =>
            \A i \in On("connected", s) :
                \E k \in On("disconnected", s) :
                    i < k /\ events[k].id = events[i].id

\* C6: an Audio packet received before any SessionId packet on its connection
\* hands no frame to the pipeline: every frame follows a connected of the
\* same connection.
C6_NoAudioBeforeIdentity ==
    \A f \in Of("frame") :
        \E i \in On("connected", events[f].sock) : i < f


\* what the pipeline observes of connection s, in order
Lifecycle == {"connected", "frame", "disconnected"}
IsObserved(s, e) == e.sock = s /\ e.ev \in Lifecycle
Observed(s) == SelectSeq(events, LAMBDA e : IsObserved(s, e))
\* connection s received SessionId, then Audio packets, then Terminate as its
\* packet number t, and all of them were processed
Scripted(s, t) ==
    /\ \E i \in On("connected", s) : events[i].n = 1
    /\ \A n \in 2..(t - 1) : \E f \in On("frame", s) : events[f].n = n
    /\ \E i \in On("terminate", s) : events[i].n = t

\* C7: for a session that receives SessionId, n Audio packets and Terminate,
\* the observed events are exactly connected, the n frames in packet order,
\* disconnected, and no packet after Terminate is processed.
C7_LifecycleOrdering ==
    \A s \in Conns, t \in 2..MaxStimuli :
        (Ended(s) /\ Scripted(s, t)) =>
            LET q == Observed(s) IN
            /\ Len(q) = t
            /\ q[1].ev = "connected"
            /\ \A n \in 2..(t - 1) : q[n].ev = "frame" /\ q[n].n = n
            /\ q[t].ev = "disconnected" /\ q[t].id = q[1].id
            /\ \A i \in Indices : events[i].sock = s => events[i].n <= t

\* the peer of s closed in the middle of a packet
CutOff(s) == partial[s] \in {"hdr", "pay"}

\* C8: after the peer closes in the middle of a header or of a payload, the
\* session ends as after Terminate (socket closed, disconnected fired if
\* connected had fired), the partial packet yields no frame or notification,
\* the server still listens, and nothing is left that a next connection would
\* have to evict.
C8_ShortReadResilience ==
    \A s \in Conns :
        (CutOff(s) /\ Settled) =>
            /\ sock[s] = "closed"
            /\ \A i \in On("connected", s) :
                  \E k \in On("disconnected", s) : i < k
            /\ \A i \in Indices : events[i].sock = s => events[i].n <= sent[s]
            /\ server = "listening"
            /\ s = nconn => reader = NoConn /\ writer = NoConn
            /\ \A c \in Conns :
                  (c > s /\ On("evict", c) = {} /\ On("connected", c) # {}
                       /\ sock[c] = "open") => reader = c

\* a frame is submitted with no session in place: after a disconnected that
\* no connected has followed yet
AfterDisconnected(j) ==
    \E k \in Of("disconnected") :
        k < j /\ \A m \in Of("connected") : ~(k < m /\ m < j)

\* C9: a frame submitted between a disconnected and the next connected, or
\* while no write handle is attached, returns False at once and nothing is
\* written to or drained on any socket.
C9_WriteAfterDisconnectInert ==
    \A j \in Of("submit") :
        (AfterDisconnected(j) \/ events[j].sock = NoConn) =>
            /\ j < Len(events)
            /\ events[j + 1] = Ev("return", <<>>, NoConn, events[j].n, FALSE)
            /\ \A w \in Of("write") : events[w].n # events[j].n
            /\ pc[W] = "drain" => nsub # events[j].n

\* a frame was submitted after a session had come and gone
C9_Witness ==
    \E j \in Of("submit") :
        /\ AfterDisconnected(j)
        /\ \E r \in Of("return") : r > j /\ ~events[r].ok


\* the session of connection s is Active throughout the log from event j on:
\* connected fired before j, no disconnected of s since, socket still open
ActiveSince(s, j) ==
    /\ sock[s] = "open"
    /\ \E i \in On("connected", s) : i < j
    /\ On("disconnected", s) = {}
\* the Audio packets of frame n that reached the wire of socket c
OnWire(c, n) ==
    {k \in 1..Len(wire[c]) :
        /\ wire[c][k].n = n
        /\ wire[c][k].part = "header"
        /\ wire[c][k].type = AUDIOSOCKET_TYPE_AUDIO}

Declared(packet) == UnpackH(BDrop(BTake(packet, 3), 1))
Carried(packet) == BDrop(packet, 3)

\* C13: for every tag in 0..255 and payload of at most 65535 bytes,
\* build_packet succeeds, parse_packet of its first three bytes gives the
\* tag and the payload's length, the bytes after the header are the payload,
\* and the receive loop reads the same tag, length and payload out of it;
\* it also reads back what _build_audio_packet wrote.
C13_CodecRoundTrip ==
    /\ (fn.op = "failed") => BLen(fn.payload) > U16Max
    /\ (fn.op \in {"parsed", "received"}) =>
          /\ fn.parsed = [type |-> fn.type, len |-> BLen(fn.payload)]
          /\ BEq(Carried(fn.packet), fn.payload)
    /\ (fn.op = "received") =>
          /\ ~HasRaised(fn.received)
          /\ fn.received.type = fn.type
          /\ fn.received.len = BLen(fn.payload)
          /\ BEq(fn.received.payload, fn.payload)
    /\ (fn.op = "read_back") =>
          /\ ~HasRaised(fn.received)
          /\ fn.received.type = AUDIOSOCKET_TYPE_AUDIO
          /\ fn.received.len = BLen(Carried(fn.packet))
          /\ BEq(fn.received.payload, Carried(fn.packet))

\* a payload at the limit of the length field went through the three calls
C13_Witness ==
    /\ fn.op = "received"
    /\ BLen(fn.payload) = U16Max
    /\ fn.received.len = U16Max


\* the audio that write_audio_frame has to send for a frame
Outbound(audio) ==
    resample_audio(audio, PIPECAT_SAMPLE_RATE, ASTERISK_SAMPLE_RATE)
RECURSIVE CarriedTotal(_)
CarriedTotal(packets) ==
    IF packets = <<>> THEN 0
    ELSE BLen(Carried(Head(packets))) + CarriedTotal(Tail(packets))

\* C14: every packet written declares the length of the payload it carries,
\* and a frame whose resampled audio is longer than 65535 bytes goes out as
\* several packets of at most 65535 payload bytes each that carry all of it.
C14_LengthsAndChunking ==
    (fn.op \in {"written", "read_back"} /\ ~HasRaised(Outbound(fn.audio))) =>
        LET written == fn.result.written IN
        /\ \A i \in 1..Len(written) :
              /\ Declared(written[i]) = BLen(Carried(written[i]))
              /\ BLen(Carried(written[i])) <= U16Max
        /\ BLen(Outbound(fn.audio)) > U16Max => Len(written) > 1
        /\ CarriedTotal(written) = BLen(Outbound(fn.audio))

\* ---------------------------------------------------------------------------
\* the last observed event, once there is one
LastEvent == events[Len(events)]
\* a write or a drain has failed in this step: write_audio_frame or the
\* Terminate send had a writer, and ends without success
WriteFailure ==
    /\ Len(events') = Len(events) + 1
    /\ LastEvent'.ev \in {"return", "stop_output_return", "raise"}
    /\ LastEvent'.sock # NoConn
    /\ ~LastEvent'.ok

\* C11: a failure of the socket write or drain inside write_audio_frame or
\* the Terminate send does not reach the caller as an exception: the call
\* returns (False for write_audio_frame), and the step leaves the server, the
\* receive tasks and the input endpoint's connection state as they were.
C11_WriteFailureContained ==
    [][WriteFailure =>
          /\ LastEvent'.ev # "raise"
          /\ server' = server
          /\ \A c \in Conns : pc'[L(c)] = pc[L(c)]
          /\ UNCHANGED <<inVars, sock>>]_vars

\* C11: a write_audio_frame whose drain failed has returned False, and the
\* server is still listening
C11_Witness ==
    /\ server = "listening"
    /\ \E i \in Indices :
          /\ events[i].ev = "return"
          /\ events[i].sock # NoConn
          /\ ~events[i].ok

\* ---------------------------------------------------------------------------
\* the positions of the packet headers on the socket of connection c
Headers(c) == {k \in 1..Len(wire[c]) : wire[c][k].part = "header"}
AudioHeaders(c) ==
    {k \in Headers(c) : wire[c][k].type = AUDIOSOCKET_TYPE_AUDIO}
TerminateHeaders(c) ==
    {k \in Headers(c) : wire[c][k].type = AUDIOSOCKET_TYPE_TERMINATE}

\* C12: on each socket the Audio packets stand in the order in which their
\* frames were submitted, no frame is on the wire twice (on one socket or on
\* two), and a Terminate packet stands after every Audio packet whose frame
\* was submitted before the stop and before every one submitted after it.
C12_OutputOrdering ==
    /\ \A c \in Conns : \A j, k \in AudioHeaders(c) :
          j < k => wire[c][j].n < wire[c][k].n
    /\ \A c, d \in Conns : \A j \in AudioHeaders(c), k \in AudioHeaders(d) :
          wire[c][j].n = wire[d][k].n => (c = d /\ j = k)
    /\ \A c \in Conns : \A k \in TerminateHeaders(c), j \in AudioHeaders(c) :
          j < k <=> wire[c][j].n <= wire[c][k].n

\* C12: a socket carries an Audio packet and, after it, the Terminate packet
\* of a stop that came after the frame
C12_Witness ==
    \E c \in Conns : \E k \in TerminateHeaders(c), j \in AudioHeaders(c) :
        j < k

\* ---------------------------------------------------------------------------
\* C19: while a write_audio_frame or a Terminate send is between its write
\* and the end of its drain, the output endpoint's writer is neither set nor
\* cleared.
C19_WriterStableInFlight ==
    [][(pc[W] = "drain" \/ pc[T] = "drain") => out_writer' = out_writer]_vars

\* ---------------------------------------------------------------------------
\* C20: what is written to a socket is a run of whole packets: every header
\* that declares a payload is at once followed by that payload, a header that
\* declares none is followed by the next header, and every payload stands
\* right behind its own header.
C20_WholePackets ==
    \A c \in Conns : \A k \in 1..Len(wire[c]) :
        LET x == wire[c][k] IN
        IF x.part = "header"
        THEN IF x.len > 0
             THEN /\ k < Len(wire[c])
                  /\ wire[c][k + 1] = [x EXCEPT !.part = "payload"]
             ELSE k < Len(wire[c]) => wire[c][k + 1].part = "header"
        ELSE /\ k > 1
             /\ wire[c][k - 1] = [x EXCEPT !.part = "header"]

\* C20: a Terminate send went out while a write_audio_frame on the same
\* socket was still in its drain, and both packets are on the wire
C20_Witness ==
    \E c \in Conns : \E j \in AudioHeaders(c), k \in TerminateHeaders(c) :
        /\ pc[W] = "drain"
        /\ wsock = c
        /\ wire[c][j].n = nsub
        /\ j < k

\* ---------------------------------------------------------------------------
\* a call of the input endpoint's stop (kind "stop") or cancel has returned
Returned(kind) == pc[S] = "stopped" /\ Of(kind) # {}
\* the events observed after that return
AfterReturn == {i \in Indices : \E j \in Of("stop_return") : j < i}
\* the sessions in which connected has fired
WasActive == {s \in Conns : On("connected", s) # {}}

\* C15: once stop has returned, the listening socket is closed, no client
\* socket is open or closing, no handler or receive task is alive and the
\* server task has ended, disconnected has fired exactly once for every
\* session in which connected had fired, and no frame and no notification is
\* observed after the return.
C15_GracefulStop ==
    Returned("stop") =>
        /\ server # "listening"
        /\ V \notin Range(ready)
        /\ \A c \in Conns : sock[c] \in {"none", "closed"}
        /\ \A c \in Conns : pc[H(c)] \in {"none", "done"}
        /\ LiveLoops = {}
        /\ \A s \in WasActive : Cardinality(On("disconnected", s)) = 1
        /\ \A i \in AfterReturn : events[i].ev \notin Lifecycle

\* ---------------------------------------------------------------------------
\* session s is Active when event j is observed: connected has fired in it
\* and disconnected has not
ActiveAt(s, j) ==
    /\ \E i \in On("connected", s) : i < j
    /\ \A i \in On("disconnected", s) : j < i
\* the bridge has been stopped gracefully: the input endpoint's stop has
\* returned, the output endpoint's stop was called after that and has
\* returned too
StoppedInOrder ==
    /\ Returned("stop")
    /\ pc[T] = "stopped"
    /\ \A i \in Of("stop_return"), j \in Of("stop_output") : i < j

\* C16: after a graceful stop of the bridge, input endpoint first, a session
\* that was Active when the stop began and whose socket is closed has a
\* Terminate packet on its socket.
C16_TerminateBeforeClose ==
    StoppedInOrder =>
        \A s \in Conns : \A j \in Of("stop") :
            (ActiveAt(s, j) /\ sock[s] = "closed") => TerminateHeaders(s) # {}

\* ---------------------------------------------------------------------------
\* nothing is under way: the tasks are settled and no stop or cancel is in
\* progress
Quiet == Settled /\ pc[S] \in {"none", "stopped"}

\* C17: once the receive task of a connection has ended, whatever ended it,
\* and the cleanup that was under way is over, the connection's socket is not
\* open and neither endpoint holds its writer.
C17_ExitRunsCleanup ==
    Quiet =>
        \A c \in Conns :
            pc[L(c)] = "done" =>
                /\ sock[c] # "open"
                /\ writer # c
                /\ out_writer # c

\* ---------------------------------------------------------------------------
\* session s has failed: a packet of it raised, or one of its handlers did
Failed(s) ==
    \E i \in Indices :
        /\ events[i].sock = s
        /\ events[i].ev \in {"error", "connected", "disconnected"}
        /\ ~events[i].ok
\* the bridge is Idle: every call so far is over
BridgeIdle == Settled /\ LiveLoops = {}

C22_IdentityResampling ==
    (fn.op = "resampled" /\ fn.from_rate = fn.to_rate) =>
        /\ ~HasRaised(fn.result)
        /\ fn.result = fn.audio

\* C22: audio of an odd number of bytes has come back from a resampling
\* between equal rates
C22_Witness ==
    /\ fn.op = "resampled"
    /\ fn.from_rate = fn.to_rate
    /\ BLen(fn.audio) % 2 = 1

\* ---------------------------------------------------------------------------
\* round(a / b) for naturals a and b > 0, halves going to the even neighbour
Round(a, b) ==
    LET q == a \div b
        twice == 2 * (a % b)
    IN  IF twice < b THEN q
        ELSE IF twice > b THEN q + 1
        ELSE IF q % 2 = 0 THEN q ELSE q + 1
\* the samples of audio that is whole 16-bit samples
Samples(audio) == BLen(audio) \div 2

\* C23: between the two rates of the bridge, in either direction, audio of N
\* samples comes back as round(N * to_rate / from_rate) samples.
C23_ResampledLength ==
    (/\ fn.op = "resampled"
     /\ {fn.from_rate, fn.to_rate} = {ASTERISK_SAMPLE_RATE, PIPECAT_SAMPLE_RATE}
     /\ BLen(fn.audio) % 2 = 0) =>
        /\ ~HasRaised(fn.result)
        /\ BLen(fn.result) % 2 = 0
        /\ Samples(fn.result)
              = Round(Samples(fn.audio) * fn.to_rate, fn.from_rate)

\* ---------------------------------------------------------------------------
\* session s came after a session that had its disconnected
Reconnected(s) ==
    \E f \in Conns : \E i \in On("disconnected", f), j \in On("connected", s) :
        f # s /\ i < j

\* C21: however often input() and output() are called, each has returned one
\* instance only, the one the facade holds; and in a session that follows a
\* disconnect, every packet between its SessionId and its Terminate has come
\* out of the input endpoint, and a frame submitted to the output endpoint
\* while the session is Active is written once, to that session's socket.
C21_EndpointsSurviveReconnect ==
    /\ fn.inputs \subseteq {fn.input}
    /\ fn.outputs \subseteq {fn.output}
    /\ fn.made = Cardinality({fn.input, fn.output} \ {NoEndpoint})
    /\ \A s \in Conns :
          Reconnected(s) =>
              /\ \A i \in On("connected", s), k \in On("terminate", s) :
                    \A n \in (events[i].n + 1)..(events[k].n - 1) :
                        \E e \in Of("frame") \cup Of("connected") :
                            events[e].sock = s /\ events[e].n = n
              /\ \A j \in Of("submit") :
                    LET n == events[j].n IN
                    (ActiveSince(s, j) /\ ~(pc[W] = "drain" /\ nsub = n)) =>
                        /\ \E r \in Of("return") :
                              r > j /\ events[r].n = n /\ events[r].ok
                        /\ Cardinality(OnWire(s, n)) = 1
                        /\ \A c \in Conns \ {s} : OnWire(c, n) = {}

\* C21: input() and output() have been called more often than there are
\* endpoints, and a session that followed a disconnect has handed a frame to
\* the pipeline and has had a frame written to its socket
C21_Witness ==
    /\ fn.calls = MaxFacadeCalls
    /\ fn.inputs # {} /\ fn.outputs # {}
    /\ \E s \in Conns :
          /\ Reconnected(s)
          /\ On("frame", s) # {}
          /\ \E n \in 1..nsub : OnWire(s, n) # {}

\* ---------------------------------------------------------------------------
\* the packet types that have a branch with an effect
ActingTypes ==
    {AUDIOSOCKET_TYPE_TERMINATE, AUDIOSOCKET_TYPE_UUID, AUDIOSOCKET_TYPE_AUDIO}
\* receive task c is about to dispatch a packet that carries no action
AtIdlePacket(c) ==
    pc[L(c)] = "dispatch" /\ cur[c].type \notin ActingTypes
\* what is read from a stream after its first packet was read
AfterFirst(stream) ==
    LET first == receive_packet(stream) IN
    receive_packet(BDrop(stream, 3 + first.len))
\* payloads for a packet without action, one of which reads like a header
IdlePayloads ==
    {Explicit(<<>>), Explicit(<<7>>), Explicit(<<1, 0>>),
     Explicit(<<AUDIOSOCKET_TYPE_UUID, 0, 1>>)}
\* the packets that may follow it
FollowingPackets ==
    {[type |-> AUDIOSOCKET_TYPE_UUID, payload |-> Explicit(<<97>>)],
     [type |-> AUDIOSOCKET_TYPE_AUDIO, payload |-> Bytes(<<>>, 4, 320)],
     [type |-> AUDIOSOCKET_TYPE_TERMINATE, payload |-> Explicit(<<>>)]}

\* C24: a Silence packet or a packet of an unknown type is consumed with its
\* payload and changes nothing: the step that dispatches it observes no
\* event, leaves the call identifier, the reader, the writers and every
\* socket as they were, and goes back to the loop condition; and the packet
\* behind it on the stream is read with its own type, length and payload.
C24_IdlePacketsIgnored ==
    /\ [][\A c \in Conns :
              (AtIdlePacket(c) /\ pc'[L(c)] # pc[L(c)]) =>
                  /\ pc'[L(c)] = "top"
                  /\ UNCHANGED <<events, inVars, out_writer, sock, rd>>]_vars
    /\ [](\A c \in Conns :
              AtIdlePacket(c) =>
                  \A p \in IdlePayloads, q \in FollowingPackets :
                      LET next == AfterFirst(
                              BCat(build_packet(cur[c].type, p),
                                   build_packet(q.type, q.payload)))
                      IN  /\ ~HasRaised(next)
                          /\ next.type = q.type
                          /\ next.len = BLen(q.payload)
                          /\ BEq(next.payload, q.payload))

\* C24: the second packet of a connection has been processed although its
\* first one left no trace
C24_Witness ==
    \E e \in Of("connected") \cup Of("frame") :
        /\ events[e].n = 2
        /\ \A i \in Indices :
              events[i].sock = events[e].sock => events[i].n # 1

\* ---------------------------------------------------------------------------
\* no SessionId packet has been read from connection s
Unidentified(s) ==
    /\ On("connected", s) = {}
    /\ On("error", s) = {}
    /\ \A c \in Conns :
          rd[c] = s /\ cur[c] # NoPacket => cur[c].type # AUDIOSOCKET_TYPE_UUID
\* the connection whose end task t handles in _close_client_connection: its
\* own for a receive task, the one it found in place for a handler
Closing(t) ==
    IF \E c \in Conns : t = L(c)
    THEN CHOOSE c \in Conns : t = L(c)
    ELSE IF \E i \in Of("evict") : t = H(events[i].sock)
    THEN events[CHOOSE i \in Of("evict") : t = H(events[i].sock)].n
    ELSE NoConn
\* this step fires on_client_disconnected
FiresDisconnected ==
    /\ Len(events') = Len(events) + 1
    /\ events'[Len(events')].ev = "disconnected"

\* C25: the end of a connection from which no SessionId was ever read fires
\* no disconnected notification, whatever identifier is set at that moment.
C25_UnidentifiedEndsSilently ==
    [][\A t \in Closers :
          (running = t /\ pc[t] = "close_mid" /\ FiresDisconnected) =>
              (Closing(t) = NoConn \/ ~Unidentified(Closing(t)))]_vars

\* ---------------------------------------------------------------------------
\* C26: the receive loop started for a connection reads from that
\* connection's socket only: the reader of its pending or last read is its
\* own, also after a newer connection has replaced it.
C26_LoopReadsOwnSocket ==
    \A c \in Conns : rd[c] \in {NoConn, c}

\* ---------------------------------------------------------------------------
\* the input side alone, with pipeline callbacks that suspend: connections
\* that replace one another while packets are being processed
MaxInput == 5
MaxInputPackets == 3
InitInput ==
    /\ env = [budget |-> MaxInput, packets |-> MaxInputPackets, frames |-> 0,
              slow |-> {"connected", "push"},
              menu |-> {Packet(AUDIOSOCKET_TYPE_UUID, <<"a">>),
                        Packet(AUDIOSOCKET_TYPE_AUDIO, AudioPayload)},
              faulty |-> {}]
    /\ fn = NoCall
    /\ Constructed

NextInput ==
    \/ Start
    \/ \E c \in Conns : Accept(c)
    \/ \E c \in Conns : ClientHandler(c)
    \/ \E c \in Conns : ClientHandlerResume(c)
    \/ \E t \in Closers : CloseWriter(t)
    \/ \E t \in Closers : CloseWriterDone(t)
    \/ \E t \in Closers : CloseNotify(t)
    \/ \E t \in Closers : CloseClear(t)
    \/ \E t \in Closers : CallbackReturns(t)
    \/ \E c \in Conns : LoopTest(c)
    \/ \E c \in Conns : ReadHeader(c)
    \/ \E c \in Conns : ReadPayload(c)
    \/ \E c \in Conns : Dispatch(c)
    \/ \E c \in Conns : ReceiveDone(c)
    \/ \E s \in Conns : PeerSend(s)
    \/ \E s \in Conns : PeerClose(s, "none")
    \/ \E s \in Conns : ConnectionLost(s)

SpecInput == InitInput /\ [][NextInput]_vars

\* receive task c holds a packet: it has read it, or it is suspended in the
\* callback or the push that the packet led to
Processing(c) ==
    pc[L(c)] \in {"read_pay", "read_pay_cut", "dispatch", "conn_cb", "push"}
\* the frames of connection s are in the order of their packets, each once
FramesInOrder(s) ==
    \A i, j \in On("frame", s) : i < j => events[i].n < events[j].n
\* the packets of one socket are processed one after another
OneAtATime ==
    \A c, d \in Conns :
        (c # d /\ Processing(c) /\ Processing(d)) => rd[c] # rd[d]

\* C27: the frames handed to the pipeline from a connection follow the order
\* of its Audio packets, none twice, a packet that is being processed lies
\* behind every packet of its socket that was processed, and no packet is
\* taken up while the one before it on the socket is still being processed.
C27_InputOrdering ==
    /\ \A s \in Conns : FramesInOrder(s)
    /\ \A c \in Conns :
          cur[c] # NoPacket =>
              \A i \in Indices :
                  (events[i].sock = rd[c] /\ events[i].ev \in
                       {"connected", "frame", "terminate", "error"}) =>
                      events[i].n < cur[c].n
    /\ OneAtATime

\* ---------------------------------------------------------------------------
\* one call at a time with several output frames: frames submitted while
\* the call ends
MaxOutput == 6
MaxOutputPackets == 2
MaxOutputFrames == 3
InitOutput ==
    /\ env = [budget |-> MaxOutput, packets |-> MaxOutputPackets,
              frames |-> MaxOutputFrames, slow |-> {},
              menu |-> {Packet(AUDIOSOCKET_TYPE_UUID, <<"a">>),
                        Packet(AUDIOSOCKET_TYPE_TERMINATE, <<>>)},
              faulty |-> {}]
    /\ fn = NoCall
    /\ Constructed

NextOutput ==
    \/ Start
    \/ \E c \in Conns : AcceptNext(c)
    \/ \E c \in Conns : ClientHandler(c)
    \/ \E t \in Closers : CloseWriter(t)
    \/ \E t \in Closers : CloseWriterDone(t)
    \/ \E t \in Closers : CloseNotify(t)
    \/ \E t \in Closers : CloseClear(t)
    \/ \E c \in Conns : LoopTest(c)
    \/ \E c \in Conns : ReadHeader(c)
    \/ \E c \in Conns : ReadPayload(c)
    \/ \E c \in Conns : Dispatch(c)
    \/ \E c \in Conns : ReceiveDone(c)
    \/ \E s \in Conns : PeerSend(s)
    \/ \E s \in Conns : PeerClose(s, "none")
    \/ \E s \in Conns : ConnectionLost(s)
    \/ WriteAudioFrame
    \/ Writable
    \/ WriteAudioFrameDone

SpecOutput == InitOutput /\ [][NextOutput]_vars

\* write_audio_frame has returned False for a frame it had written to
\* socket s: the write or its drain() failed
WriteFailed(r, s) ==
    /\ r \in Of("return")
    /\ ~events[r].ok
    /\ events[r].sock = s
    /\ s # NoConn

\* C28: once a frame has failed on a session's socket, no later frame of
\* that session (before its disconnected) is written to that socket or
\* drained on it: later frames return False straight away.
C28_FailedSessionUnusable ==
    \A s \in Conns, r \in Indices :
        WriteFailed(r, s) =>
            \A w \in Of("write") :
                (w > r /\ \A d \in On("disconnected", s) : d > w) =>
                    events[w].sock # s

\* ---------------------------------------------------------------------------
\* a _close_client_connection is under way, or a socket it closed is not yet
\* lost
CloseInProgress ==
    \/ \E t \in Closers :
          pc[t] \in {"close", "wait_closed", "close_mid", "disc_cb",
                     "close_end", "after_close"}
    \/ \E c \in Conns : sock[c] = "closing"
\* the session of connection s is Active: s is the connection in place and
\* the call identifier in place is the one it sent
ActiveNow(s) ==
    /\ reader = s
    /\ writer = s
    /\ call_uuid.set
    /\ call_uuid.by = s

\* C29: while no close is in progress, a writer attached to the output
\* endpoint is the open socket of the session that is Active now: none is
\* attached without a session or before its SessionId, and none of a session
\* that has ended.
C29_OutputWriterCurrent ==
    (out_writer # NoConn /\ ~CloseInProgress) =>
        /\ sock[out_writer] = "open"
        /\ ActiveNow(out_writer)

\* ---------------------------------------------------------------------------
\* every session is over and every cleanup has run to its end: no receive
\* task is left, no handler, and no stop or cancel is under way
AllEnded == BridgeIdle /\ pc[S] \in {"none", "stopped"}

\* C30: once every session has ended and its cleanup is complete, the input
\* endpoint holds no reader, no writer and no call identifier; and whenever
\* no task is in the middle of a step, the reader and the writer are the
\* same connection or both none.
C30_BackToIdle ==
    /\ AllEnded =>
          /\ reader = NoConn
          /\ writer = NoConn
          /\ call_uuid = NoneStr
    /\ running = NoTask => reader = writer

\* ---------------------------------------------------------------------------
\* C31: once cancel has returned, every receive task and the server task
\* have ended, no client socket is open or closing, the listening socket is
\* closed, and disconnected has fired exactly once for every session in
\* which connected had fired.
C31_CancelReleasesAll ==
    Returned("cancel") =>
        /\ LiveLoops = {}
        /\ V \notin Range(ready)
        /\ server # "listening"
        /\ \A c \in Conns : sock[c] \in {"none", "closed"}
        /\ \A s \in WasActive : Cardinality(On("disconnected", s)) = 1

\* ---------------------------------------------------------------------------
\* the distance of two naturals
Dist(a, b) == IF a < b THEN b - a ELSE a - b

C33_SamplesClamped ==
    fn.op = "sample" => fn.result = Clamped(Truncated(fn.value))

\* ---------------------------------------------------------------------------
\* the endpoint is configured with the default rates
DefaultRates(params) ==
    params = Params(ASTERISK_SAMPLE_RATE, PIPECAT_SAMPLE_RATE)

\* C34: a frame that the input path hands to the pipeline has one channel,
\* the configured pipeline rate as its sample rate, and as its audio the
\* packet's payload resampled from the configured telephony rate to the
\* pipeline rate; with the default rates it has twice the payload's samples.
C34_InputFrameFormat ==
    (fn.op = "handled" /\ ~HasRaised(fn.result)) =>
        /\ fn.result.num_channels = 1
        /\ fn.result.sample_rate = fn.params.pipeline_sample_rate
        /\ fn.result.audio =
              resample_audio(fn.audio, fn.params.asterisk_sample_rate,
                             fn.params.pipeline_sample_rate)
        /\ DefaultRates(fn.params) =>
              Samples(fn.result.audio) = 2 * Samples(fn.audio)

\* C34: a payload of 160 samples has been handed on with the default rates
C34_Witness ==
    /\ fn.op = "handled"
    /\ DefaultRates(fn.params)
    /\ Samples(fn.audio) = 160
    /\ ~HasRaised(fn.result)
    /\ Samples(fn.result.audio) = 320

\* ---------------------------------------------------------------------------
\* the length that bytes 1 and 2 of the data declare, high byte first
HeaderLength(data) == 256 * BAt(data, 1) + BAt(data, 2)

\* C35: given fewer than three bytes, the decoder returns no type and the
\* length 0, and the receive loop reads no header; given three bytes or
\* more, both take the type from byte 0 and the length from bytes 1 and 2,
\* whatever follows them.
C35_HeaderDecoding ==
    /\ (fn.op \in {"decoded", "decoded_both"}) =>
          IF BLen(fn.data) < 3
          THEN fn.parsed = [type |-> NoType, len |-> 0]
          ELSE fn.parsed = [type |-> BAt(fn.data, 0),
                            len |-> HeaderLength(fn.data)]
    /\ (fn.op = "decoded_both") =>
          IF BLen(fn.data) < 3
          THEN HasRaised(fn.received)
          ELSE HasRaised(fn.received) \/
                  /\ fn.received.type = BAt(fn.data, 0)
                  /\ fn.received.len = HeaderLength(fn.data)

\* C35: data with more bytes behind the header than it declares has been
\* decoded by both
C35_Witness ==
    /\ fn.op = "decoded_both"
    /\ BLen(fn.data) > 3 + HeaderLength(fn.data)
    /\ fn.parsed.len = HeaderLength(fn.data)
    /\ ~HasRaised(fn.received)

\* ---------------------------------------------------------------------------
\* the bridge with a pipeline that starts its endpoints more than once,
\* before, during and after calls and after a stop or a cancel
MaxStartCalls == 2
MaxStart == 3
MaxStartPackets == 1
InitStart ==
    /\ env = [budget |-> MaxStart, packets |-> MaxStartPackets, frames |-> 0,
              slow |-> {},
              menu |-> {Packet(AUDIOSOCKET_TYPE_UUID, <<"a">>)},
              faulty |-> {}]
    /\ fn = NoCall
    /\ Constructed

\* AudioSocketInputTransport.start is called
StartCall ==
    /\ startup.in_calls < MaxStartCalls
    /\ InputStart
    /\ startup' = [startup EXCEPT !.in_calls = @ + 1]

\* AudioSocketOutputTransport.start, lines 360-372: the first call sets
\* _initialized and marks the transport ready, later calls return at once
OutputStart ==
    /\ Idle
    /\ startup.out_calls < MaxStartCalls
    /\ startup' =
          IF startup.out_initialized
          THEN [startup EXCEPT !.out_calls = @ + 1]
          ELSE [startup EXCEPT !.out_calls = @ + 1,
                               !.out_initialized = TRUE,
                               !.out_ready = @ + 1]
    /\ UNCHANGED <<env, fn, tsock, stop_awaits, initialized, server, nconn,
                   sock, netVars, waiter, closeWaiters, inVars, out_writer,
                   pc, rd, cur, wsock, nsub, wire, ready, running, events>>

NextStart ==
    \/ StartCall
    \/ OutputStart
    \/ \E c \in Conns : AcceptNext(c)
    \/ \E c \in Conns : ClientHandler(c)
    \/ \E t \in Closers : CloseWriter(t)
    \/ \E t \in Closers : CloseWriterDone(t)
    \/ \E t \in Closers : CloseNotify(t)
    \/ \E t \in Closers : CloseClear(t)
    \/ \E c \in Conns : LoopTest(c)
    \/ \E c \in Conns : ReadHeader(c)
    \/ \E c \in Conns : ReadPayload(c)
    \/ \E c \in Conns : Dispatch(c)
    \/ \E c \in Conns : ReceiveDone(c)
    \/ \E s \in Conns : PeerSend(s)
    \/ \E s \in Conns : PeerClose(s, "none")
    \/ \E s \in Conns : ConnectionLost(s)
    \/ \E kind \in StopKinds : StopInput(kind)
    \/ \E c \in Conns : Cancelled(c)
    \/ StopAfterReceive
    \/ StopAwaitServer
    \/ ServerTaskExit
    \/ StopAfterServer
    \/ StopDone

SpecStart == InitStart /\ [][NextStart]_vars

\* this step is a call of start on an endpoint that was started before
LaterStart ==
    \/ startup'.in_calls > startup.in_calls /\ startup.in_calls > 0
    \/ startup'.out_calls > startup.out_calls /\ startup.out_calls > 0
\* what a session consists of: the listening socket, the connections, the
\* tasks, the fields of both endpoints and what has been observed
sessionVars ==
    <<tsock, stop_awaits, initialized, server, nconn, sock, netVars, waiter,
      closeWaiters, inVars, out_writer, pc, rd, cur, wsock, nsub, wire,
      ready, running, events>>

\* C36: a server task and its listening socket are created by the first
\* start of the input endpoint and by no other, the output endpoint is
\* marked ready by its first start and not again, and a start after the
\* first leaves every part of the session as it was.
C36_StartIdempotent ==
    /\ [][(server' = "listening" /\ server # "listening") =>
              (startup.in_calls = 0 /\ startup'.in_calls = 1)]_vars
    /\ [](startup.in_calls > 0 <=> initialized)
    /\ [](startup.in_calls > 0 => server # "none")
    /\ [](startup.out_ready = IF startup.out_calls > 0 THEN 1 ELSE 0)
    /\ [](startup.out_initialized <=> startup.out_calls > 0)
    /\ [][LaterStart =>
              /\ UNCHANGED sessionVars
              /\ startup'.out_ready = startup.out_ready
              /\ startup'.out_initialized = startup.out_initialized]_vars

\* C36: both endpoints have been started twice in a run in which a stop or a
\* cancel has closed the listening socket
C36_Witness ==
    /\ startup.in_calls = 2
    /\ startup.out_calls = 2
    /\ server = "closed"
    /\ pc[S] = "stopped"

====
